---- MODULE Spec2Model ----
(***************************************************************************)
(* The directive / container decoder of maelstrom-test-runner             *)
(* (metadata/directive.rs) as a state machine: a TOML document is parsed   *)
(* into a table of key/value pairs, DirectiveVisitor::visit_map then walks *)
(* the table entry by entry through fill_entry, and the container fields   *)
(* are delegated to TestContainerVisitor (metadata/container.rs, whose     *)
(* behaviour is taken from the design document, sections 3.1 and 4.2).     *)
(* Spec reads TOML documents over the fields the merge rules are about;    *)
(* SpecMap hands the visitor the entries of an arbitrary map: every key,   *)
(* well-formed and malformed values, repeated keys included;               *)
(* SpecBuilders runs two decoders side by side. SpecCargo is the cargo     *)
(* build of cargo-maelstrom (cargo.rs) with its child process and          *)
(* SpecPython the run_python of maelstrom-pytest (pytest.rs) with its two  *)
(* reader threads and its child; SpecCargoFair and SpecPythonFair add the  *)
(* fairness of the scheduler. SpecCollect is pytest_collect_tests with the *)
(* stream of artifacts it returns.                                         *)
(***************************************************************************)
EXTENDS Integers, Sequences, FiniteSets, TLC

VARIABLES doc, pc, pos, self, result, filter_calls, builders, cargo, python,
          collect

vars ==
    <<doc, pc, pos, self, result, filter_calls, builders, cargo, python, collect>>

\* The state of one decoder; of the decoders that run side by side; of a
\* cargo build and its child; of a python run, its two reader threads and
\* its child; of a collection of pytest cases and its artifact stream.
decoder_vars == <<doc, pc, pos, self, result, filter_calls>>

\* The longest declaration (number of top-level key/value pairs) explored.
MaxFields == 3

\* The longest declaration explored when the entries come from an arbitrary
\* map (every key, every shape of value, repeated keys included).
MaxEntries == 2

(***************************************************************************)
(* Option, Result and PossiblyImage values                                 *)
(***************************************************************************)
None == [tag |-> "None"]

Some(v) == [tag |-> "Some", v |-> v]

Ok(v) == [tag |-> "Ok", v |-> v]

Err(m) == [tag |-> "Err", msg |-> m]

\* PossiblyImage::Image, which the design document calls FromImage.
FromImage == [tag |-> "Image"]

Explicit(v) == [tag |-> "Explicit", v |-> v]

(***************************************************************************)
(* Field names                                                             *)
(***************************************************************************)
DirectiveOnlyKeys == {"filter", "include_shared_libraries", "timeout", "ignore"}

ContainerKeys ==
    {"network", "enable_writable_file_system", "user", "group", "mounts",
     "added_mounts", "image", "working_directory", "layers", "added_layers",
     "environment", "added_environment"}

\* enum DirectiveField with serde(field_identifier, rename_all = "snake_case"):
\* the accepted keys and the variant each one names.
DirectiveField ==
    [filter |-> "Filter",
     include_shared_libraries |-> "IncludeSharedLibraries",
     timeout |-> "Timeout",
     ignore |-> "Ignore",
     network |-> "Network",
     enable_writable_file_system |-> "EnableWritableFileSystem",
     user |-> "User",
     group |-> "Group",
     mounts |-> "Mounts",
     added_mounts |-> "AddedMounts",
     image |-> "Image",
     working_directory |-> "WorkingDirectory",
     layers |-> "Layers",
     added_layers |-> "AddedLayers",
     environment |-> "Environment",
     added_environment |-> "AddedEnvironment"]

\* next_key with the key working_directory left out of the accepted names.
next_key_renamed(key) ==
    IF key \in DOMAIN DirectiveField \ {"working_directory"}
    THEN Ok(DirectiveField[key])
    ELSE Err("unknown field '" \o key \o "', expected one of")

\* next_key with a catch-all variant: a key that names no field is read as
\* Ignore.
next_key_other(key) ==
    IF key \in DOMAIN DirectiveField THEN Ok(DirectiveField[key]) ELSE Ok("Ignore")

\* next_key with the key image read as the variant Ignore.
next_key_image(key) ==
    IF key = "image" THEN Ok("Ignore")
    ELSE IF key \in DOMAIN DirectiveField THEN Ok(DirectiveField[key])
    ELSE Err("unknown field '" \o key \o "', expected one of")

\* Deserializing a key into a DirectiveField (map.next_key).
next_key(key) ==
    IF key \in DOMAIN DirectiveField
    THEN Ok(DirectiveField[key])
    ELSE Err("unknown field '" \o key \o "', expected one of")

\* into_container_field with the Image arm naming
\* ContainerField::WorkingDirectory.
into_container_field_image(ident) ==
    IF ident \in {"Filter", "IncludeSharedLibraries", "Timeout", "Ignore"} THEN None
    ELSE IF ident = "Image" THEN Some("WorkingDirectory")
    ELSE Some(ident)

\* into_container_field with the Environment arm naming
\* ContainerField::AddedEnvironment.
into_container_field_environment(ident) ==
    IF ident \in {"Filter", "IncludeSharedLibraries", "Timeout", "Ignore"} THEN None
    ELSE IF ident = "Environment" THEN Some("AddedEnvironment")
    ELSE Some(ident)

\* into_container_field with the Mounts arm naming ContainerField::AddedMounts.
into_container_field_mounts(ident) ==
    IF ident \in {"Filter", "IncludeSharedLibraries", "Timeout", "Ignore"} THEN None
    ELSE IF ident = "Mounts" THEN Some("AddedMounts")
    ELSE Some(ident)

\* into_container_field with the AddedLayers arm naming ContainerField::Layers.
into_container_field_layers(ident) ==
    IF ident \in {"Filter", "IncludeSharedLibraries", "Timeout", "Ignore"} THEN None
    ELSE IF ident = "AddedLayers" THEN Some("Layers")
    ELSE Some(ident)

\* into_container_field with the AddedMounts arm naming ContainerField::Mounts.
into_container_field_added_mounts(ident) ==
    IF ident \in {"Filter", "IncludeSharedLibraries", "Timeout", "Ignore"} THEN None
    ELSE IF ident = "AddedMounts" THEN Some("Mounts")
    ELSE Some(ident)

\* into_container_field with the Network arm naming ContainerField::User.
into_container_field_network(ident) ==
    IF ident \in {"Filter", "IncludeSharedLibraries", "Timeout", "Ignore"} THEN None
    ELSE IF ident = "Network" THEN Some("User")
    ELSE Some(ident)

\* into_container_field with the User arm naming ContainerField::Group.
into_container_field_user(ident) ==
    IF ident \in {"Filter", "IncludeSharedLibraries", "Timeout", "Ignore"} THEN None
    ELSE IF ident = "User" THEN Some("Group")
    ELSE Some(ident)

\* into_container_field with the AddedLayers arm naming ContainerField::Layers.
into_container_field_added_layers(ident) ==
    IF ident \in {"Filter", "IncludeSharedLibraries", "Timeout", "Ignore"} THEN None
    ELSE IF ident = "AddedLayers" THEN Some("Layers")
    ELSE Some(ident)

\* into_container_field with the AddedEnvironment arm naming
\* ContainerField::Environment.
into_container_field_added_environment(ident) ==
    IF ident \in {"Filter", "IncludeSharedLibraries", "Timeout", "Ignore"} THEN None
    ELSE IF ident = "AddedEnvironment" THEN Some("Environment")
    ELSE Some(ident)

\* into_container_field with the Network arm left to the arm that returns
\* None.
into_container_field_none(ident) ==
    IF ident \in {"Filter", "IncludeSharedLibraries", "Timeout", "Ignore", "Network"}
    THEN None
    ELSE Some(ident)

into_container_field(ident) ==
    CASE ident = "Filter" -> None
      [] ident = "IncludeSharedLibraries" -> None
      [] ident = "Timeout" -> None
      [] ident = "Ignore" -> None
      [] ident = "Network" -> Some("Network")
      [] ident = "EnableWritableFileSystem" -> Some("EnableWritableFileSystem")
      [] ident = "User" -> Some("User")
      [] ident = "Group" -> Some("Group")
      [] ident = "Mounts" -> Some("Mounts")
      [] ident = "AddedMounts" -> Some("AddedMounts")
      [] ident = "Image" -> Some("Image")
      [] ident = "WorkingDirectory" -> Some("WorkingDirectory")
      [] ident = "Layers" -> Some("Layers")
      [] ident = "AddedLayers" -> Some("AddedLayers")
      [] ident = "Environment" -> Some("Environment")
      [] ident = "AddedEnvironment" -> Some("AddedEnvironment")

(***************************************************************************)
(* Field Decoder: the values of the input tree and what they decode to     *)
(***************************************************************************)
ImageUses == <<"layers", "environment", "working_directory">>

ImageUse == {ImageUses[i] : i \in DOMAIN ImageUses}

\* Timeout::new: zero seconds is "no timeout".
Timeout_new(n) == IF n = 0 THEN None ELSE Some(n)

\* The caller-supplied filter parser (TestFilterT::from_str).
parse_filter(s) ==
    IF s = "bad" THEN Err("cannot parse filter 'bad'") ELSE Ok([filter |-> s])

\* The closed universes of the tagged values (design document, 3.1).
MountTypes == {"proc", "tmp", "sys", "bind", "devices"}

Devices == {"null", "zero", "full", "random", "urandom", "tty"}

NetworkModes == {"disabled", "loopback", "local"}

LayerTags ==
    {"tar", "glob", "paths", "stubs", "symlinks", "shared-library-dependencies"}

\* The modifier keys of a layer and the discriminators that take them.
LayerModifiers == {"strip_prefix", "prepend_prefix", "canonicalize"}

ModifiedLayerTags == {"glob", "paths", "shared-library-dependencies"}

unknown_variant(x) == Err("unknown variant '" \o x \o "', expected one of")

unknown_field(x) == Err("unknown field '" \o x \o "', expected")

missing_field(x) == Err("missing field '" \o x \o "'")

\* The fields a mount variant requires and the ones it merely accepts.
required_mount_fields(t) ==
    CASE t \in {"proc", "tmp", "sys"} -> {"mount_point"}
      [] t = "bind" -> {"mount_point", "local_path"}
      [] t = "devices" -> {"devices"}

optional_mount_fields(t) == IF t = "bind" THEN {"read_only"} ELSE {}

\* decode_device_set: a sequence of device names becomes a set.
decode_device_set(ds) ==
    LET bad == {i \in DOMAIN ds : ds[i] \notin Devices}
    IN  IF bad # {}
        THEN unknown_variant(ds[CHOOSE i \in bad : \A j \in bad : i <= j])
        ELSE Ok({ds[i] : i \in DOMAIN ds})

\* The mount a well-formed record of variant m.type stands for.
stored_mount(m) ==
    CASE m.type \in {"proc", "tmp", "sys"} ->
            [type |-> m.type, mount_point |-> m.mount_point]
      [] m.type = "bind" ->
            [type |-> "bind", mount_point |-> m.mount_point,
             local_path |-> m.local_path,
             read_only |-> IF "read_only" \in DOMAIN m THEN m.read_only ELSE FALSE]
      [] m.type = "devices" ->
            [type |-> "devices", devices |-> decode_device_set(m.devices).v]

\* decode_mount: dispatch on 'type', only the fields of the variant, every
\* required field, and a mount_point that is a NonRootPath ("/" is refused).
decode_mount(m) ==
    IF "type" \notin DOMAIN m THEN missing_field("type")
    ELSE IF m.type \notin MountTypes THEN unknown_variant(m.type)
    ELSE LET given == DOMAIN m \ {"type"}
             unknown == given \ (required_mount_fields(m.type)
                                 \cup optional_mount_fields(m.type))
             missing == required_mount_fields(m.type) \ given
         IN  IF unknown # {} THEN unknown_field(CHOOSE k \in unknown : TRUE)
             ELSE IF "mount_point" \in given /\ m.mount_point = "/"
             THEN Err("a path of \"/\" not allowed")
             ELSE IF "devices" \in given /\ decode_device_set(m.devices).tag = "Err"
             THEN decode_device_set(m.devices)
             ELSE IF missing # {} THEN missing_field(CHOOSE k \in missing : TRUE)
             ELSE Ok(stored_mount(m))

RECURSIVE decode_mounts(_)
decode_mounts(ms) ==
    IF ms = <<>> THEN Ok(<<>>)
    ELSE LET h == decode_mount(Head(ms))
         IN  IF h.tag = "Err" THEN h
             ELSE LET t == decode_mounts(Tail(ms))
                  IN  IF t.tag = "Err" THEN t ELSE Ok(<<h.v>> \o t.v)

\* The LayerSpec variant a discriminator key names.
LayerVariant ==
    [tar |-> "Tar", glob |-> "Glob", paths |-> "Paths", stubs |-> "Stubs",
     symlinks |-> "Symlinks"]
    @@ ("shared-library-dependencies" :> "SharedLibraryDependencies")

\* The value of modifier m of layer l: what the layer gives, or the default
\* (no prefix; canonicalize = false).
layer_modifier(l, m) ==
    IF m = "canonicalize"
    THEN (IF m \in DOMAIN l THEN l[m] ELSE FALSE)
    ELSE (IF m \in DOMAIN l THEN Some(l[m]) ELSE None)

\* decode_layer: exactly one discriminator key names the variant, no key is
\* foreign, and a modifier key is legal only for the variants that take it
\* (the wording of the errors is not part of the design document).
decode_layer(l) ==
    LET tags == DOMAIN l \cap LayerTags
        mods == DOMAIN l \cap LayerModifiers
        tag == CHOOSE t \in tags : TRUE
    IN  IF Cardinality(tags) # 1 \/ DOMAIN l # tags \cup mods
        THEN Err("layer: expected exactly one of the layer types")
        ELSE IF mods # {} /\ tag \notin ModifiedLayerTags
        THEN Err("layer: field not allowed for this layer type")
        ELSE IF tag = "tar" THEN Ok([type |-> "Tar", path |-> l.tar])
        ELSE IF tag \in ModifiedLayerTags
        THEN Ok([type |-> LayerVariant[tag], value |-> l[tag],
                 strip_prefix |-> layer_modifier(l, "strip_prefix"),
                 prepend_prefix |-> layer_modifier(l, "prepend_prefix"),
                 canonicalize |-> layer_modifier(l, "canonicalize")])
        ELSE Ok([type |-> LayerVariant[tag], value |-> l[tag]])

RECURSIVE decode_layers(_)
decode_layers(ls) ==
    IF ls = <<>> THEN Ok(<<>>)
    ELSE LET h == decode_layer(Head(ls))
         IN  IF h.tag = "Err" THEN h
             ELSE LET t == decode_layers(Tail(ls))
                  IN  IF t.tag = "Err" THEN t ELSE Ok(<<h.v>> \o t.v)

\* The network mode is one of the closed set.
decode_network(n) == IF n \in NetworkModes THEN Ok(n) ELSE unknown_variant(n)

\* An image reference is a bare string or a table {name, use?}; an absent
\* 'use' means {layers, environment}; an unknown 'use' entry is refused.
decode_image_reference(i) ==
    CASE i.form = "string" ->
            Ok([name |-> i.name, use |-> {"layers", "environment"}])
      [] i.form = "table" /\ i.use = None ->
            Ok([name |-> i.name, use |-> {"layers", "environment"}])
      [] i.form = "table" /\ i.use # None ->
            IF i.use.v \subseteq ImageUse
            THEN Ok([name |-> i.name, use |-> i.use.v])
            ELSE unknown_variant(CHOOSE u \in i.use.v \ ImageUse : TRUE)

\* An environment map is a set of <<name, value>> pairs with distinct names.
merge_environment(old, new) ==
    {p \in old : \A q \in new : q[1] # p[1]} \cup new

(***************************************************************************)
(* Container Builder (TestContainerVisitor), design document section 4.2   *)
(***************************************************************************)
DefaultTestContainer ==
    [network |-> None,
     enable_writable_file_system |-> None,
     user |-> None,
     group |-> None,
     mounts |-> None,
     added_mounts |-> <<>>,
     image |-> None,
     working_directory |-> None,
     layers |-> None,
     added_layers |-> <<>>,
     environment |-> None,
     added_environment |-> {}]

\* The provenance ledger: "unset", "explicit" or "image" per dual-source field.
DefaultLedger ==
    [working_directory |-> "unset", layers |-> "unset", environment |-> "unset"]

DefaultTestContainerVisitor ==
    [value |-> DefaultTestContainer, ledger |-> DefaultLedger]

\* The added sibling of a replace field.
added_of(f) ==
    CASE f = "layers" -> "added_layers"
      [] f = "environment" -> "added_environment"
      [] f = "mounts" -> "added_mounts"

\* Whether the added sibling of replace field f is still empty.
added_is_empty(cv, f) ==
    IF f = "environment"
    THEN cv.value.added_environment = {}
    ELSE cv.value[added_of(f)] = <<>>

\* Row "network, enable_writable_file_system, user, group".
set_simple(cv, f, v) ==
    IF cv.value[f] # None
    THEN Err("duplicate key '" \o f \o "'")
    ELSE Ok([cv EXCEPT !.value[f] = Some(v)])

\* Row "mounts".
set_mounts(cv, raw) ==
    IF ~added_is_empty(cv, "mounts")
    THEN Err("field 'mounts' cannot be set after 'added_mounts'")
    ELSE LET d == decode_mounts(raw)
         IN  IF d.tag = "Err" THEN d
             ELSE Ok([cv EXCEPT !.value.mounts = Some(d.v)])

\* Row "added_mounts".
add_mounts(cv, raw) ==
    LET d == decode_mounts(raw)
    IN  IF d.tag = "Err" THEN d
        ELSE Ok([cv EXCEPT !.value.added_mounts = @ \o d.v])

\* Rows "working_directory", "layers" and "environment": an explicit value
\* for a dual-source field.
set_explicit(cv, f, v) ==
    IF cv.ledger[f] = "image"
    THEN Err("field '" \o f \o "' cannot be set after 'image' field that uses '"
             \o f \o "'")
    ELSE IF f # "working_directory" /\ ~added_is_empty(cv, f)
    THEN Err("field '" \o f \o "' cannot be set after '" \o added_of(f) \o "'")
    ELSE Ok([cv EXCEPT !.value[f] = Some(Explicit(v)), !.ledger[f] = "explicit"])

\* Rows "added_layers" and "added_environment".
add_layers(cv, raw) ==
    LET d == decode_layers(raw)
    IN  IF d.tag = "Err" THEN d
        ELSE Ok([cv EXCEPT !.value.added_layers = @ \o d.v])

add_environment(cv, raw) ==
    Ok([cv EXCEPT !.value.added_environment = merge_environment(@, raw)])

\* Row "image": the precondition of one entry of the 'use' set.
image_use_error(cv, u) ==
    IF cv.ledger[u] = "explicit"
    THEN Some("field 'image' cannot use '" \o u \o "' if field '" \o u
              \o "' is also set")
    ELSE IF u # "working_directory" /\ ~added_is_empty(cv, u)
    THEN Some("field 'image' that uses '" \o u \o "' cannot be set after '"
              \o added_of(u) \o "'")
    ELSE None

set_image_reference(cv, i) ==
    LET bad == {n \in DOMAIN ImageUses :
                  ImageUses[n] \in i.use /\ image_use_error(cv, ImageUses[n]) # None}
        first == CHOOSE n \in bad : \A m \in bad : n <= m
        used(f, old) == IF f \in i.use THEN Some(FromImage) ELSE old
        marked(f, old) == IF f \in i.use THEN "image" ELSE old
    IN  IF bad # {}
        THEN Err(image_use_error(cv, ImageUses[first]).v)
        ELSE Ok([value |->
                   [cv.value EXCEPT
                      !.image = Some(i.name),
                      !.working_directory = used("working_directory", @),
                      !.layers = used("layers", @),
                      !.environment = used("environment", @)],
                 ledger |->
                   [f \in DOMAIN cv.ledger |-> marked(f, cv.ledger[f])]])

set_image(cv, raw) ==
    LET d == decode_image_reference(raw)
    IN  IF d.tag = "Err" THEN d ELSE set_image_reference(cv, d.v)

\* Row "layers": the precondition, then the decoded value is stored.
set_layers(cv, raw) ==
    LET d == decode_layers(raw)
        p == set_explicit(cv, "layers", IF d.tag = "Ok" THEN d.v ELSE <<>>)
    IN  IF p.tag = "Err" THEN p ELSE IF d.tag = "Err" THEN d ELSE p

\* Row "network": the mode is decoded, then stored.
set_network(cv, raw) ==
    LET d == decode_network(raw)
    IN  IF d.tag = "Err" THEN d ELSE set_simple(cv, "network", d.v)

\* TestContainerVisitor::fill_entry (accept_field).
container_fill_entry(cv, field, raw) ==
    CASE field = "Network" -> set_network(cv, raw)
      [] field = "EnableWritableFileSystem" ->
            set_simple(cv, "enable_writable_file_system", raw)
      [] field = "User" -> set_simple(cv, "user", raw)
      [] field = "Group" -> set_simple(cv, "group", raw)
      [] field = "Mounts" -> set_mounts(cv, raw)
      [] field = "AddedMounts" -> add_mounts(cv, raw)
      [] field = "Image" -> set_image(cv, raw)
      [] field = "WorkingDirectory" -> set_explicit(cv, "working_directory", raw)
      [] field = "Layers" -> set_layers(cv, raw)
      [] field = "AddedLayers" -> add_layers(cv, raw)
      [] field = "Environment" -> set_explicit(cv, "environment", raw)
      [] field = "AddedEnvironment" -> add_environment(cv, raw)

\* TestContainerVisitor::into_test_container (finalize).
into_test_container(cv) == cv.value

(***************************************************************************)
(* Directive Decoder (DirectiveVisitor)                                    *)
(***************************************************************************)
\* A default directive with ignore set.
DefaultTestDirective_ignore ==
    [filter |-> None,
     container |-> DefaultTestContainer,
     include_shared_libraries |-> None,
     timeout |-> None,
     ignore |-> Some(FALSE)]

DefaultTestDirective ==
    [filter |-> None,
     container |-> DefaultTestContainer,
     include_shared_libraries |-> None,
     timeout |-> None,
     ignore |-> None]

DefaultDirectiveVisitor ==
    [value |-> DefaultTestDirective,
     container_visitor |-> DefaultTestContainerVisitor]

\* The delegation arm with the error of the container visitor dropped
\* instead of propagated.
delegate_swallow(dv, ident, raw) ==
    LET c == into_container_field(ident)
    IN  IF c = None THEN [tag |-> "Panic"]
        ELSE LET r == container_fill_entry(dv.container_visitor, c.v, raw)
             IN  IF r.tag = "Err" THEN Ok(dv)
                 ELSE Ok([dv EXCEPT !.container_visitor = r.v])

\* The delegation arm handing the field to a fresh container visitor
\* instead of the one of the directive visitor.
delegate_fresh(dv, ident, raw) ==
    LET c == into_container_field(ident)
    IN  IF c = None THEN [tag |-> "Panic"]
        ELSE LET r == container_fill_entry(DefaultTestContainerVisitor, c.v, raw)
             IN  IF r.tag = "Err" THEN r
                 ELSE Ok([dv EXCEPT !.container_visitor = r.v])

\* The delegation arm of fill_entry: the field goes to the container
\* visitor; "Panic" stands for the unwrap of a None.
delegate(dv, ident, raw) ==
    LET c == into_container_field(ident)
    IN  IF c = None THEN [tag |-> "Panic"]
        ELSE LET r == container_fill_entry(dv.container_visitor, c.v, raw)
             IN  IF r.tag = "Err" THEN r
                 ELSE Ok([dv EXCEPT !.container_visitor = r.v])

\* fill_entry with the Timeout arm storing the number of seconds as it is,
\* Timeout::new left out: zero is kept as a timeout of zero seconds.
fill_entry_timeout(dv, ident, raw) ==
    IF ident = "Timeout"
    THEN Ok([dv EXCEPT !.value.timeout = Some(Some(raw))])
    ELSE IF ident = "Filter"
    THEN LET p == parse_filter(raw)
         IN  IF p.tag = "Err" THEN p
             ELSE Ok([dv EXCEPT !.value.filter = Some(p.v)])
    ELSE IF ident = "IncludeSharedLibraries"
    THEN Ok([dv EXCEPT !.value.include_shared_libraries = Some(raw)])
    ELSE IF ident = "Ignore" THEN Ok([dv EXCEPT !.value.ignore = Some(raw)])
    ELSE delegate(dv, ident, raw)

\* fill_entry with the error of the filter parser dropped: the filter stays
\* unset and the declaration goes on.
fill_entry_filter(dv, ident, raw) ==
    IF ident = "Filter"
    THEN LET p == parse_filter(raw)
         IN  IF p.tag = "Err" THEN Ok(dv)
             ELSE Ok([dv EXCEPT !.value.filter = Some(p.v)])
    ELSE IF ident = "IncludeSharedLibraries"
    THEN Ok([dv EXCEPT !.value.include_shared_libraries = Some(raw)])
    ELSE IF ident = "Timeout"
    THEN Ok([dv EXCEPT !.value.timeout = Some(Timeout_new(raw))])
    ELSE IF ident = "Ignore" THEN Ok([dv EXCEPT !.value.ignore = Some(raw)])
    ELSE delegate(dv, ident, raw)

\* fill_entry with the Ignore arm assigning include_shared_libraries as
\* well.
fill_entry_ignore(dv, ident, raw) ==
    IF ident = "Ignore"
    THEN Ok([dv EXCEPT !.value.ignore = Some(raw),
                       !.value.include_shared_libraries = Some(raw)])
    ELSE IF ident = "Filter"
    THEN LET p == parse_filter(raw)
         IN  IF p.tag = "Err" THEN p
             ELSE Ok([dv EXCEPT !.value.filter = Some(p.v)])
    ELSE IF ident = "IncludeSharedLibraries"
    THEN Ok([dv EXCEPT !.value.include_shared_libraries = Some(raw)])
    ELSE IF ident = "Timeout"
    THEN Ok([dv EXCEPT !.value.timeout = Some(Timeout_new(raw))])
    ELSE delegate(dv, ident, raw)

\* DirectiveVisitor::fill_entry: Ok(visitor) or Err(message).
fill_entry(dv, ident, raw) ==
    CASE ident = "Filter" ->
            LET p == parse_filter(raw)
            IN  IF p.tag = "Err" THEN p
                ELSE Ok([dv EXCEPT !.value.filter = Some(p.v)])
      [] ident = "IncludeSharedLibraries" ->
            Ok([dv EXCEPT !.value.include_shared_libraries = Some(raw)])
      [] ident = "Timeout" ->
            Ok([dv EXCEPT !.value.timeout = Some(Timeout_new(raw))])
      [] ident = "Ignore" -> Ok([dv EXCEPT !.value.ignore = Some(raw)])
      [] OTHER -> delegate(dv, ident, raw)

\* The strings one turn of the loop hands to the filter parser
\* (String::parse in the Filter arm of fill_entry).
parser_calls(entry) ==
    LET k == next_key(entry.key)
    IN  IF k.tag = "Ok" /\ k.v = "Filter" THEN <<entry.val>> ELSE <<>>

\* One turn of the loop of visit_map: next_key, then fill_entry.
visit_entry(dv, entry) ==
    LET k == next_key(entry.key)
    IN  IF k.tag = "Err" THEN k ELSE fill_entry(dv, k.v, entry.val)

\* The end of visit_map without the assignment of the container.
visit_end_default(dv) == Ok(dv.value)

\* The end of visit_map: the container is taken from the container visitor.
visit_end(dv) ==
    Ok([dv.value EXCEPT !.container = into_test_container(dv.container_visitor)])

\* DirectiveVisitor::visit_map over the entries table[from..], as a function
\* of the document: the first failing entry ends the loop.
RECURSIVE visit_from(_, _, _)
visit_from(dv, table, from) ==
    IF from > Len(table) THEN visit_end(dv)
    ELSE LET r == visit_entry(dv, table[from])
         IN  IF r.tag # "Ok" THEN r ELSE visit_from(r.v, table, from + 1)

visit_map(table) == visit_from(DefaultDirectiveVisitor, table, 1)

\* The TOML parser refuses a document that repeats a key.
duplicate_key(table) ==
    \E i, j \in DOMAIN table : i < j /\ table[i].key = table[j].key

first_duplicate(table) ==
    CHOOSE j \in DOMAIN table :
        /\ \E i \in 1..(j - 1) : table[i].key = table[j].key
        /\ \A m \in 1..(j - 1) :
               ~\E i \in 1..(m - 1) : table[i].key = table[m].key

\* parse_test_directive = toml::from_str::<TestDirective<_>>.
parse_test_directive(table) ==
    IF duplicate_key(table)
    THEN Err("duplicate key '" \o table[first_duplicate(table)].key \o "'")
    ELSE visit_map(table)

(***************************************************************************)
(* Named container (NamedTestContainer): the container fields and a name   *)
(***************************************************************************)
DefaultNamedVisitor ==
    [name |-> None, container_visitor |-> DefaultTestContainerVisitor]

\* One entry of a named container: 'name', or a field of the container.
named_fill_entry(nv, entry) ==
    IF entry.key = "name"
    THEN Ok([nv EXCEPT !.name = Some(entry.val)])
    ELSE IF entry.key \in ContainerKeys
    THEN LET r == container_fill_entry(nv.container_visitor,
                                       DirectiveField[entry.key], entry.val)
         IN  IF r.tag = "Err" THEN r
             ELSE Ok([nv EXCEPT !.container_visitor = r.v])
    ELSE Err("unknown field '" \o entry.key \o "', expected one of")

named_end(nv) ==
    IF nv.name = None THEN missing_field("name")
    ELSE Ok([name |-> nv.name.v,
             container |-> into_test_container(nv.container_visitor)])

RECURSIVE named_visit_from(_, _, _)
named_visit_from(nv, table, from) ==
    IF from > Len(table) THEN named_end(nv)
    ELSE LET r == named_fill_entry(nv, table[from])
         IN  IF r.tag # "Ok" THEN r ELSE named_visit_from(r.v, table, from + 1)

\* parse_test_container = toml::from_str::<NamedTestContainer>.
parse_test_container(table) ==
    IF duplicate_key(table)
    THEN Err("duplicate key '" \o table[first_duplicate(table)].key \o "'")
    ELSE named_visit_from(DefaultNamedVisitor, table, 1)

(***************************************************************************)
(* Input documents                                                         *)
(***************************************************************************)
ProcMount == [type |-> "proc", mount_point |-> "/proc"]

TmpMount == [type |-> "tmp", mount_point |-> "/tmp"]

RootMount == [type |-> "sys", mount_point |-> "/"]

ImageValues ==
    {[form |-> "string", name |-> "rust"],
     [form |-> "table", name |-> "rust", use |-> None]}
    \cup {[form |-> "table", name |-> "rust", use |-> Some(u)] : u \in SUBSET ImageUse}

\* The values a document may give to a key.
FieldValues(k) ==
    CASE k = "filter" -> {"all", "bad"}
      [] k = "include_shared_libraries" -> {TRUE}
      [] k = "timeout" -> {0, 1}
      [] k = "ignore" -> {TRUE}
      [] k = "network" -> {"loopback"}
      [] k = "enable_writable_file_system" -> {TRUE}
      [] k = "user" -> {101}
      [] k = "group" -> {202}
      [] k = "mounts" -> {<<ProcMount, TmpMount>>, <<RootMount>>}
      [] k = "added_mounts" -> {<<>>, <<TmpMount, ProcMount>>}
      [] k = "image" -> ImageValues
      [] k = "working_directory" -> {"/foo"}
      [] k = "layers" -> {<<[tar |-> "foo.tar"]>>}
      [] k = "added_layers" -> {<<>>, <<[tar |-> "bar.tar"]>>}
      [] k = "environment" -> {{<<"FOO", "foo">>}}
      [] k = "added_environment" -> {{}, {<<"BAR", "bar">>}}
      [] OTHER -> {"foo"}

\* The keys a document may use: every directive field, one unknown key and
\* the key only a named container has.
InputKeys == DOMAIN DirectiveField \cup {"unknown", "name"}

\* Layers of the accepted shapes: each discriminator alone, and the three
\* that take modifiers with them.
GoodLayers ==
    {[tar |-> "foo.tar"],
     [glob |-> "foo*.bin"],
     [glob |-> "foo*.bin", strip_prefix |-> "a"],
     [paths |-> <<"foo.bin", "bar.bin">>, prepend_prefix |-> "b"],
     [paths |-> <<"foo.bin", "bar.bin">>, canonicalize |-> TRUE],
     [stubs |-> <<"/foo/bar", "/bin/{baz,qux}/">>],
     [symlinks |-> <<[link |-> "/hi", target |-> "/there"]>>],
     "shared-library-dependencies" :> <<"/bin/bash", "/bin/sh">>,
     ("shared-library-dependencies" :> <<"/bin/bash", "/bin/sh">>)
         @@ [prepend_prefix |-> "/usr", canonicalize |-> TRUE]}

\* Layers with no discriminator, with two, with a foreign key, or with a
\* modifier on a variant that takes none.
BadLayers ==
    {[strip_prefix |-> "a"],
     [tar |-> "foo.tar", glob |-> "foo*.bin"],
     [zip |-> "foo.zip"],
     [tar |-> "foo.tar", strip_prefix |-> "a"],
     [stubs |-> <<"/foo/bar">>, canonicalize |-> TRUE],
     [symlinks |-> <<[link |-> "/hi", target |-> "/there"]>>,
      prepend_prefix |-> "b"]}

BindMount == [type |-> "bind", mount_point |-> "/bind", local_path |-> "/local"]

DevicesMount == [type |-> "devices", devices |-> <<"null", "zero", "null">>]

\* A devices mount whose list names no device.
EmptyDevicesMount == [type |-> "devices", devices |-> <<>>]

\* One mount of every accepted shape.
GoodMounts ==
    {ProcMount, TmpMount, BindMount,
     [type |-> "sys", mount_point |-> "/sys"],
     [type |-> "bind", mount_point |-> "/bind2", local_path |-> "/local2",
      read_only |-> TRUE],
     DevicesMount}

\* Mounts with a mount point of "/".
RootMountsOfEveryType ==
    {[type |-> t, mount_point |-> "/"] : t \in {"proc", "tmp", "sys"}}
    \cup {[type |-> "bind", mount_point |-> "/", local_path |-> "/a"]}

\* Mounts with a field the variant does not have, or without one it needs.
MisfieldedMounts ==
    {[type |-> "proc", mount_point |-> "/proc", unknown |-> "true"],
     [type |-> "tmp", mount_point |-> "/tmp", local_path |-> "/a"],
     [type |-> "sys", mount_point |-> "/sys", read_only |-> TRUE],
     [type |-> "bind", mount_point |-> "/bind", local_path |-> "/a",
      unknown |-> "true"],
     [type |-> "proc"],
     [type |-> "bind", mount_point |-> "/bind"],
     [type |-> "bind", local_path |-> "/a"]}

\* Mounts with a tag outside its universe.
MistaggedMounts ==
    {[type |-> "devices", devices |-> <<"null", "unknown">>],
     [type |-> "overlay", mount_point |-> "/proc"]}

MountValues ==
    {<<m>> : m \in GoodMounts \cup RootMountsOfEveryType
                    \cup MisfieldedMounts \cup MistaggedMounts}
    \cup {<<ProcMount, [type |-> "tmp", mount_point |-> "/"]>>,
          <<EmptyDevicesMount>>}

\* The values an arbitrary map may give to a key.
MapValues(k) ==
    CASE k = "filter" -> {"all", "bad"}
      [] k = "include_shared_libraries" -> {TRUE}
      [] k = "timeout" -> {0, 1, 2}
      [] k = "ignore" -> {TRUE}
      [] k = "network" -> {"loopback", "host"}
      [] k = "enable_writable_file_system" -> {TRUE}
      [] k = "user" -> {101}
      [] k = "group" -> {202}
      [] k = "mounts" -> MountValues
      [] k = "added_mounts" ->
            {<<>>, <<TmpMount>>, <<[type |-> "proc", mount_point |-> "/"]>>,
             <<BindMount, [type |-> "bind", mount_point |-> "/", local_path |-> "/a"]>>}
      [] k = "image" ->
            {[form |-> "string", name |-> "rust"],
             [form |-> "table", name |-> "rust", use |-> Some({"working_directory"})],
             [form |-> "table", name |-> "rust", use |-> Some({"layers", "everything"})]}
      [] k = "working_directory" -> {"/foo"}
      [] k = "layers" ->
            {<<l>> : l \in GoodLayers \cup BadLayers}
      [] k = "added_layers" ->
            {<<[tar |-> "bar.tar"]>>, <<[tar |-> "bar.tar"], [zip |-> "bar.zip"]>>}
      [] k = "environment" -> {{<<"FOO", "foo">>}}
      [] k = "added_environment" -> {{<<"BAR", "bar">>}}
      [] OTHER -> {"foo"}

\* The keys of the documents of Spec: the fields the merge rules are about,
\* one plain container field, one directive-only field and the unknown key.
MergeKeys ==
    {"filter", "network", "mounts", "added_mounts", "image", "working_directory",
     "layers", "added_layers", "environment", "added_environment", "unknown"}

(***************************************************************************)
(* The decoder as a state machine                                          *)
(***************************************************************************)
\* The value of a part of the state that a specification does not run.
NotStarted == <<>>

Init ==
    /\ doc = <<>>
    /\ pc = "toml"
    /\ pos = 1
    /\ self = DefaultDirectiveVisitor
    /\ result = None
    /\ filter_calls = <<>>
    /\ builders = NotStarted
    /\ cargo = NotStarted
    /\ python = NotStarted
    /\ collect = NotStarted

\* The TOML parser reads one more key/value pair of the document; a repeated
\* key ends the parse with an error before any visitor runs.
TomlKeyValue(keys) ==
    /\ pc = "toml"
    /\ Len(doc) < MaxFields
    /\ \E k \in keys : \E v \in FieldValues(k) :
          /\ doc' = Append(doc, [key |-> k, val |-> v])
          /\ IF \E i \in DOMAIN doc : doc[i].key = k
             THEN /\ pc' = "done"
                  /\ result' = parse_test_directive(doc')
             ELSE UNCHANGED <<pc, result>>
    /\ UNCHANGED <<pos, self, filter_calls>>
    /\ UNCHANGED <<builders, cargo, python, collect>>

\* TestDirective::deserialize: the parsed table is handed to a fresh
\* DirectiveVisitor.
Deserialize ==
    /\ pc = "toml"
    /\ pc' = "visit_map"
    /\ pos' = 1
    /\ self' = DefaultDirectiveVisitor
    /\ UNCHANGED <<doc, result, filter_calls>>
    /\ UNCHANGED <<builders, cargo, python, collect>>

\* The loop of visit_map with the error of fill_entry dropped: the loop goes
\* on to the next entry.
FillEntry_continue ==
    /\ pc = "visit_map"
    /\ pos <= Len(doc)
    /\ LET r == visit_entry(self, doc[pos])
       IN  self' = IF r.tag = "Ok" THEN r.v ELSE self
    /\ pos' = pos + 1
    /\ filter_calls' = filter_calls \o parser_calls(doc[pos])
    /\ UNCHANGED <<doc, pc, result>>
    /\ UNCHANGED <<builders, cargo, python, collect>>

\* One iteration of the loop of visit_map.
FillEntry ==
    /\ pc = "visit_map"
    /\ pos <= Len(doc)
    /\ LET r == visit_entry(self, doc[pos])
       IN  IF r.tag = "Ok"
           THEN /\ self' = r.v
                /\ pos' = pos + 1
                /\ UNCHANGED <<pc, result>>
           ELSE /\ result' = r
                /\ pc' = "done"
                /\ UNCHANGED <<pos, self>>
    /\ filter_calls' = filter_calls \o parser_calls(doc[pos])
    /\ UNCHANGED doc
    /\ UNCHANGED <<builders, cargo, python, collect>>

\* The loop of visit_map ends: the directive is finalized.
VisitEnd ==
    /\ pc = "visit_map"
    /\ pos > Len(doc)
    /\ result' = visit_end(self)
    /\ pc' = "done"
    /\ UNCHANGED <<doc, pos, self, filter_calls>>
    /\ UNCHANGED <<builders, cargo, python, collect>>

Next ==
    \/ TomlKeyValue(MergeKeys)
    \/ Deserialize
    \/ FillEntry
    \/ VisitEnd

Spec == Init /\ [][Next]_vars

\* A map access hands one more key/value pair to the visitor: any key, any
\* shape of value, and no check that the key is new (the visitor is generic
\* in the deserializer, which need not refuse a repeated key).
MapKeyValue ==
    /\ pc = "toml"
    /\ Len(doc) < MaxEntries
    /\ \E k \in InputKeys : \E v \in MapValues(k) :
          doc' = Append(doc, [key |-> k, val |-> v])
    /\ UNCHANGED <<pc, pos, self, result, filter_calls>>
    /\ UNCHANGED <<builders, cargo, python, collect>>

NextMap ==
    \/ MapKeyValue
    \/ Deserialize
    \/ FillEntry
    \/ VisitEnd

SpecMap == Init /\ [][NextMap]_vars

(***************************************************************************)
(* Vocabulary of the properties                                            *)
(***************************************************************************)
Done == pc = "done"

Accepted == Done /\ result.tag = "Ok"

Rejected == Done /\ result.tag = "Err"

HasKey(k) == \E i \in DOMAIN doc : doc[i].key = k

IndexOf(k) == CHOOSE i \in DOMAIN doc : doc[i].key = k

ValueOf(k) == doc[IndexOf(k)].val

\* The 'use' set an image value declares, read off the document.
DeclaredUse(v) ==
    IF v.form = "string" THEN {"layers", "environment"}
    ELSE IF v.use = None THEN {"layers", "environment"}
    ELSE v.use.v

\* Entry i is an image that uses field f.
ImageUsing(i, f) == doc[i].key = "image" /\ f \in DeclaredUse(doc[i].val)

\* Entry i gives field f its source: explicitly, or through an image.
Sources(i, f) == doc[i].key = f \/ ImageUsing(i, f)

\* The visitor stopped with an error at entry j (every earlier entry was
\* accepted).
FailedAt(j) == Rejected /\ ~duplicate_key(doc) /\ pos = j

\* Entry i is a mounts value that holds a mount point of "/".
RootMounts(i) == doc[i].key = "mounts" /\ doc[i].val = <<RootMount>>

\* What a mount list and a layer list of the document look like once stored.
StoredMounts(ms) == [i \in DOMAIN ms |-> [type |-> ms[i].type, mount_point |-> ms[i].mount_point]]

StoredLayers(ls) == [i \in DOMAIN ls |-> [type |-> "Tar", path |-> ls[i].tar]]

Container == result.v.container

(***************************************************************************)
(* C1. No dual source: no accepted declaration both has an image whose     *)
(* 'use' set contains f and sets f explicitly, in either order, for f in   *)
(* working_directory, layers, environment.                                 *)
(***************************************************************************)
C1_NoDualSource ==
    Accepted =>
        \A f \in ImageUse :
            ~(\E i, j \in DOMAIN doc : ImageUsing(i, f) /\ doc[j].key = f)

\* A declaration that sets environment and then names an image that uses
\* it has been decoded (and refused).
C1_Witness ==
    /\ Done
    /\ Len(doc) = 2
    /\ doc[1].key = "environment"
    /\ ImageUsing(2, "environment")
    /\ result.tag = "Err"

\* Entry i is an added field with at least one element.
NonEmptyAdded(i, X) ==
    /\ doc[i].key = added_of(X)
    /\ IF X = "environment" THEN doc[i].val # {} ELSE doc[i].val # <<>>

(***************************************************************************)
(* C2. Replace-before-append: every declaration in which mounts comes      *)
(* after added_mounts, or layers / environment (explicit or sourced by an  *)
(* image) comes after added_layers / added_environment, is rejected,       *)
(* whatever the value of the added field.                                  *)
(***************************************************************************)
C2_ReplaceAfterAddedRejected ==
    Done =>
        \A i, j \in DOMAIN doc :
            (/\ i < j
             /\ \/ doc[i].key = "added_mounts" /\ doc[j].key = "mounts"
                \/ doc[i].key = "added_layers" /\ Sources(j, "layers")
                \/ doc[i].key = "added_environment" /\ Sources(j, "environment"))
            => result.tag = "Err"

(***************************************************************************)
(* C3. In every accepted declaration whose image uses layers, the          *)
(* finalized layers is FromImage and no layers or added_layers key comes   *)
(* before the image key.                                                   *)
(***************************************************************************)
C3_ImageLayersFirst ==
    Accepted =>
        \A j \in DOMAIN doc :
            ImageUsing(j, "layers") =>
                /\ Container.layers = Some(FromImage)
                /\ \A i \in 1..(j - 1) : doc[i].key \notin {"layers", "added_layers"}

\* The image at entry j breaks no precondition other than "added_X empty".
OnlyAddedConflict(j, X) ==
    \A u \in DeclaredUse(doc[j].val) :
        /\ \A i \in 1..(j - 1) : doc[i].key # u
        /\ u \in {"layers", "environment"} \ {X} =>
               \A i \in 1..(j - 1) : ~NonEmptyAdded(i, u)

(***************************************************************************)
(* C4. An image that uses layers (environment) is never accepted after a   *)
(* non-empty added_layers (added_environment): the visitor never gets past *)
(* the image entry, no container is produced, and when this is the only    *)
(* precondition the image entry breaks, the error is                       *)
(* "field 'image' that uses 'X' cannot be set after 'added_X'".            *)
(***************************************************************************)
C4_ImageAfterAddedRejected ==
    \A X \in {"layers", "environment"} : \A i, j \in DOMAIN doc :
        (i < j /\ NonEmptyAdded(i, X) /\ ImageUsing(j, X)) =>
            /\ pc = "visit_map" => pos <= j
            /\ Done => result.tag = "Err"
            /\ (FailedAt(j) /\ OnlyAddedConflict(j, X)) =>
                   result.msg = "field 'image' that uses '" \o X
                                \o "' cannot be set after '" \o added_of(X) \o "'"

\* added_environment = { BAR = "bar" } and then an image that uses
\* environment: the image entry has been refused.
C4_Witness ==
    /\ Len(doc) = 2
    /\ NonEmptyAdded(1, "environment")
    /\ ImageUsing(2, "environment")
    /\ FailedAt(2)
    /\ result.msg = "field 'image' that uses 'environment' cannot be set after 'added_environment'"

\* What field X of the finalized container must be when entry i sourced it.
KeptValue(i, X) ==
    IF doc[i].key = "image" THEN Some(FromImage)
    ELSE CASE X = "mounts" -> Some(StoredMounts(doc[i].val))
           [] X = "layers" -> Some(Explicit(StoredLayers(doc[i].val)))
           [] X = "environment" -> Some(Explicit(doc[i].val))

KeptAdded(j, X) ==
    CASE X = "mounts" -> StoredMounts(doc[j].val)
      [] X = "layers" -> StoredLayers(doc[j].val)
      [] X = "environment" -> doc[j].val

(***************************************************************************)
(* C5. An added field that follows its replace sibling is accepted and     *)
(* both are kept: the finalized X is the earlier value (Explicit(v), or    *)
(* FromImage when an image sourced it) and the finalized added_X holds     *)
(* exactly the elements of the added_X value.                              *)
(***************************************************************************)
C5_AddedAfterReplaceKept ==
    \A X \in {"mounts", "layers", "environment"} : \A i, j \in DOMAIN doc :
        (i < j /\ Sources(i, X) /\ doc[j].key = added_of(X)) =>
            /\ ~FailedAt(j)
            /\ (Done /\ Len(doc) = 2 /\ ~RootMounts(1)) => Accepted
            /\ Accepted =>
                   /\ Container[X] = KeptValue(i, X)
                   /\ Container[added_of(X)] = KeptAdded(j, X)

\* image = { name = "rust", use = ["layers"] } and then
\* added_layers = [{ tar = "bar.tar" }]: accepted, both kept.
C5_Witness ==
    /\ Accepted
    /\ Len(doc) = 2
    /\ ImageUsing(1, "layers")
    /\ NonEmptyAdded(2, "layers")
    /\ Container.layers = Some(FromImage)
    /\ Container.added_layers = <<[type |-> "Tar", path |-> "bar.tar"]>>

ImageForms(name) ==
    {[form |-> "string", name |-> name],
     [form |-> "table", name |-> name, use |-> None],
     [form |-> "table", name |-> name, use |-> Some({"layers", "environment"})]}

\* The document with the value of its image entries replaced by v.
WithImage(d, v) ==
    [i \in DOMAIN d |-> IF d[i].key = "image" THEN [key |-> "image", val |-> v] ELSE d[i]]

(***************************************************************************)
(* C6. Image-string equivalence: image = "X", image = { name = "X" } and   *)
(* image = { name = "X", use = ["layers", "environment"] } have the same   *)
(* outcome within any surrounding fields: the same error, or the same      *)
(* container with image = X, layers = FromImage, environment = FromImage   *)
(* and working_directory as the rest of the declaration set it.            *)
(***************************************************************************)
C6_ImageStringEquivalence ==
    (Done /\ HasKey("image") /\ ValueOf("image") \in ImageForms("rust")) =>
        /\ \A v \in ImageForms("rust") : result = parse_test_directive(WithImage(doc, v))
        /\ Accepted =>
               /\ Container.image = Some("rust")
               /\ Container.layers = Some(FromImage)
               /\ Container.environment = Some(FromImage)
               /\ Container.working_directory =
                      IF HasKey("working_directory")
                      THEN Some(Explicit(ValueOf("working_directory")))
                      ELSE None

\* working_directory = "/foo", then image = "rust", then a non-empty
\* added_layers: accepted.
C6_Witness ==
    /\ Accepted
    /\ Len(doc) = 3
    /\ doc[1].key = "working_directory"
    /\ doc[2] = [key |-> "image", val |-> [form |-> "string", name |-> "rust"]]
    /\ NonEmptyAdded(3, "layers")
    /\ Container.environment = Some(FromImage)

ExplicitValue(f) ==
    IF f = "layers" THEN StoredLayers(ValueOf(f)) ELSE ValueOf(f)

(***************************************************************************)
(* C7. In every accepted declaration and for f in working_directory,       *)
(* layers, environment: the finalized f is FromImage exactly when the      *)
(* declaration has an image whose 'use' set contains f; otherwise f is as  *)
(* the rest of the declaration set it: None if never set, Explicit(v) if   *)
(* set to v.                                                               *)
(***************************************************************************)
C7_FromImageIffUsed ==
    Accepted =>
        \A f \in ImageUse :
            /\ Container[f] = Some(FromImage) <=> \E j \in DOMAIN doc : ImageUsing(j, f)
            /\ (~\E j \in DOMAIN doc : ImageUsing(j, f)) =>
                   Container[f] =
                       IF HasKey(f) THEN Some(Explicit(ExplicitValue(f))) ELSE None

\* An image that uses only working_directory, with explicit layers and no
\* environment at all: accepted.
C7_Witness ==
    /\ Accepted
    /\ HasKey("image")
    /\ DeclaredUse(ValueOf("image")) = {"working_directory"}
    /\ HasKey("layers")
    /\ ~HasKey("environment")
    /\ Container.working_directory = Some(FromImage)
    /\ Container.environment = None

(***************************************************************************)
(* C8. Order independence without conflict: for f in working_directory,    *)
(* layers, environment and an image whose 'use' set does not contain f,    *)
(* "f = v, image" and "image, f = v" are both accepted and finalize to the *)
(* same container, with f = Explicit(v) and the used fields FromImage.     *)
(***************************************************************************)
C8_OrderIndependence ==
    \A f \in ImageUse : \A a, b \in DOMAIN doc :
        (/\ Done
         /\ Len(doc) = 2
         /\ a # b
         /\ doc[a].key = f
         /\ doc[b].key = "image"
         /\ f \notin DeclaredUse(doc[b].val)) =>
            /\ Accepted
            /\ result = parse_test_directive(<<doc[2], doc[1]>>)
            /\ Container[f] = Some(Explicit(ExplicitValue(f)))
            /\ Container.image = Some(doc[b].val.name)
            /\ \A u \in DeclaredUse(doc[b].val) : Container[u] = Some(FromImage)

\* environment = { FOO = "foo" } first and an image that uses layers and
\* working_directory second: accepted.
C8_Witness ==
    /\ Accepted
    /\ Len(doc) = 2
    /\ doc[1].key = "environment"
    /\ doc[2].key = "image"
    /\ DeclaredUse(doc[2].val) = {"layers", "working_directory"}

\* No non-empty added sibling of f comes before entry j.
NoAddedBefore(j, f) ==
    f \in {"layers", "environment"} => \A i \in 1..(j - 1) : ~NonEmptyAdded(i, f)

\* The image at entry j breaks no precondition other than "f not explicit".
OnlyExplicitConflict(j, f) ==
    \A u \in DeclaredUse(doc[j].val) :
        /\ u # f => \A i \in 1..(j - 1) : doc[i].key # u
        /\ NoAddedBefore(j, u)

(***************************************************************************)
(* C9. The order of a dual-source conflict decides the diagnostic, never   *)
(* the verdict: an image using f followed by an explicit f fails with      *)
(* "field 'f' cannot be set after 'image' field that uses 'f'", an         *)
(* explicit f followed by an image using f fails with "field 'image'       *)
(* cannot use 'f' if field 'f' is also set", and the error is raised at    *)
(* the second of the two fields (the message is the stated one when this   *)
(* conflict is the only precondition the second field breaks).             *)
(***************************************************************************)
C9_ConflictOrderDecidesMessage ==
    \A f \in ImageUse : \A i, j \in DOMAIN doc :
        /\ (i < j /\ ImageUsing(i, f) /\ doc[j].key = f) =>
              /\ pc = "visit_map" => pos <= j
              /\ Done => result.tag = "Err"
              /\ (Done /\ Len(doc) = 2) => FailedAt(2)
              /\ (FailedAt(j) /\ NoAddedBefore(j, f)) =>
                     result.msg = "field '" \o f
                         \o "' cannot be set after 'image' field that uses '" \o f \o "'"
        /\ (i < j /\ doc[i].key = f /\ ImageUsing(j, f)) =>
              /\ pc = "visit_map" => pos <= j
              /\ Done => result.tag = "Err"
              /\ (Done /\ Len(doc) = 2) => FailedAt(2)
              /\ (FailedAt(j) /\ OnlyExplicitConflict(j, f)) =>
                     result.msg = "field 'image' cannot use '" \o f \o "' if field '"
                         \o f \o "' is also set"

\* layers = [{ tar = "foo.tar" }] and then an image that uses layers and
\* working_directory: refused at the image.
C9_Witness ==
    /\ Len(doc) = 2
    /\ doc[1].key = "layers"
    /\ doc[2].key = "image"
    /\ DeclaredUse(doc[2].val) = {"layers", "working_directory"}
    /\ FailedAt(2)
    /\ result.msg = "field 'image' cannot use 'layers' if field 'layers' is also set"

RECURSIVE AllMounts(_)
AllMounts(d) ==
    IF d = <<>> THEN <<>>
    ELSE (IF Head(d).key \in {"mounts", "added_mounts"}
          THEN StoredMounts(Head(d).val) ELSE <<>>) \o AllMounts(Tail(d))

(***************************************************************************)
(* C10. In every accepted declaration the finalized mounts (if present)    *)
(* and added_mounts hold the mount entries of the declaration in the order *)
(* they were written: mounts is the list given to mounts, added_mounts the *)
(* list given to added_mounts, and mounts followed by added_mounts is the  *)
(* input-order list of all mounts, none dropped, duplicated or moved.      *)
(***************************************************************************)
C10_MountsInInputOrder ==
    Accepted =>
        /\ Container.mounts =
               IF HasKey("mounts") THEN Some(StoredMounts(ValueOf("mounts"))) ELSE None
        /\ Container.added_mounts =
               IF HasKey("added_mounts") THEN StoredMounts(ValueOf("added_mounts"))
               ELSE <<>>
        /\ (IF Container.mounts = None THEN <<>> ELSE Container.mounts.v)
               \o Container.added_mounts = AllMounts(doc)

\* mounts = [proc, tmp] and then added_mounts = [tmp, proc]: accepted with
\* four mounts in the order written.
C10_Witness ==
    /\ Accepted
    /\ Len(doc) = 2
    /\ doc[1].key = "mounts"
    /\ doc[2].key = "added_mounts"
    /\ Len(Container.mounts.v) = 2
    /\ Container.mounts.v[1].type = "proc"
    /\ Len(Container.added_mounts) = 2
    /\ Container.added_mounts[1].type = "tmp"

\* The visitor stopped with an error at entry j of a map.
StoppedAt(j) == Rejected /\ pos = j

\* The mount points of a stored mount list.
MountPoints(ms) ==
    {ms[n].mount_point : n \in {n \in DOMAIN ms : ms[n].type # "devices"}}

IsRootMount(m) == "mount_point" \in DOMAIN m /\ m.mount_point = "/"

\* Entry i is a mount list that holds a mount with mount point "/".
HasRootMount(i) ==
    /\ doc[i].key \in {"mounts", "added_mounts"}
    /\ \E n \in DOMAIN doc[i].val : IsRootMount(doc[i].val[n])

\* In the mount list of entry i, the mount with mount point "/" is the
\* first one that is not well-formed.
RootMountFirst(i) ==
    \E n \in DOMAIN doc[i].val :
        /\ IsRootMount(doc[i].val[n])
        /\ doc[i].val[n] \in RootMountsOfEveryType
        /\ \A m \in 1..(n - 1) : doc[i].val[m] \in GoodMounts

\* The same fields read as a named container: the declaration with
\* name = "test" added at its end.
AsNamedContainer == Append(doc, [key |-> "name", val |-> "test"])

(***************************************************************************)
(* C11. No root mount point: no accepted declaration (directive or named   *)
(* container) holds a mount with mount_point = "/" in mounts or            *)
(* added_mounts; a declaration with a proc, tmp, sys or bind mount at "/"  *)
(* is rejected at the field that holds it, and the error is                *)
(* "a path of "/" not allowed" (when that mount is the first malformed one *)
(* of its list and the field breaks no ordering rule).                     *)
(***************************************************************************)
C11_NoRootMountPoint ==
    /\ Accepted =>
          /\ Container.mounts # None => "/" \notin MountPoints(Container.mounts.v)
          /\ "/" \notin MountPoints(Container.added_mounts)
    /\ \A j \in DOMAIN doc :
          HasRootMount(j) =>
              /\ pc = "visit_map" => pos <= j
              /\ Done => result.tag = "Err"
              /\ (/\ StoppedAt(j)
                  /\ RootMountFirst(j)
                  /\ \A i \in 1..(j - 1) : doc[i].key # "added_mounts") =>
                     result.msg = "a path of \"/\" not allowed"
              /\ Done => parse_test_container(AsNamedContainer).tag = "Err"
              /\ (Done /\ Len(doc) = 1 /\ RootMountFirst(1)) =>
                     parse_test_container(AsNamedContainer).msg
                         = "a path of \"/\" not allowed"
    /\ (Done /\ parse_test_container(AsNamedContainer).tag = "Ok") =>
          LET c == parse_test_container(AsNamedContainer).v.container
          IN  /\ c.mounts # None => "/" \notin MountPoints(c.mounts.v)
              /\ "/" \notin MountPoints(c.added_mounts)

\* mounts = [ { type = "bind", mount_point = "/", local_path = "/a" } ] has
\* been refused.
C11_Witness ==
    /\ Len(doc) = 1
    /\ doc[1].key = "mounts"
    /\ doc[1].val = <<[type |-> "bind", mount_point |-> "/", local_path |-> "/a"]>>
    /\ StoppedAt(1)
    /\ result.msg = "a path of \"/\" not allowed"

\* The entries of the declaration that give a timeout.
TimeoutEntries == {i \in DOMAIN doc : doc[i].key = "timeout"}

\* What a timeout of n seconds is stored as.
StoredTimeout(n) == IF n = 0 THEN Some(None) ELSE Some(Some(n))

(***************************************************************************)
(* C12. Timeout mapping: in the finalized directive timeout = 0 gives      *)
(* Some(None), timeout = n > 0 gives Some(Some(n)) and a declaration with  *)
(* no timeout key gives None, whatever the other fields are; the visitor   *)
(* holds that value from the moment it has passed the timeout entry.       *)
(***************************************************************************)
C12_TimeoutMapping ==
    /\ (Accepted /\ TimeoutEntries = {}) => result.v.timeout = None
    /\ \A i \in TimeoutEntries :
          TimeoutEntries = {i} =>
              /\ Accepted => result.v.timeout = StoredTimeout(doc[i].val)
              /\ pc = "visit_map" =>
                     self.value.timeout =
                         IF pos > i THEN StoredTimeout(doc[i].val) ELSE None

\* timeout = 0 next to another field: accepted with Some(None).
C12_Witness ==
    /\ Accepted
    /\ Len(doc) = 2
    /\ doc[1].key = "user"
    /\ doc[2] = [key |-> "timeout", val |-> 0]
    /\ result.v.timeout = Some(None)

(***************************************************************************)
(* C13. Decoding the empty declaration produces exactly the default        *)
(* directive: filter, include_shared_libraries, timeout and ignore unset,  *)
(* every optional field of the container unset, and added_mounts,          *)
(* added_layers and added_environment empty.                               *)
(***************************************************************************)
C13_EmptyGivesDefault ==
    (Done /\ doc = <<>>) =>
        result =
            Ok([filter |-> None,
                include_shared_libraries |-> None,
                timeout |-> None,
                ignore |-> None,
                container |->
                    [network |-> None,
                     enable_writable_file_system |-> None,
                     user |-> None,
                     group |-> None,
                     mounts |-> None,
                     added_mounts |-> <<>>,
                     image |-> None,
                     working_directory |-> None,
                     layers |-> None,
                     added_layers |-> <<>>,
                     environment |-> None,
                     added_environment |-> {}]])

\* The empty declaration has been decoded.
C13_Witness ==
    /\ Accepted
    /\ doc = <<>>
    /\ pos = 1
    /\ filter_calls = <<>>

ContainerOnly == \A i \in DOMAIN doc : doc[i].key \in ContainerKeys

(***************************************************************************)
(* C15. A directive and a named container agree on the container part: a   *)
(* sequence of container fields decoded as a directive, and the same       *)
(* sequence with name = "test" added decoded as a named container, either  *)
(* both succeed with equal containers or both fail with the same message.  *)
(***************************************************************************)
C15_DirectiveAndNamedContainerAgree ==
    (Done /\ ContainerOnly /\ ~duplicate_key(doc)) =>
        LET named == parse_test_container(AsNamedContainer)
        IN  /\ result.tag = named.tag
            /\ Accepted =>
                   /\ Container = named.v.container
                   /\ named.v.name = "test"
            /\ Rejected => result.msg = named.msg

\* user = 101 and then a bind mount: accepted, as a directive and as a
\* named container.
C15_Witness ==
    /\ Accepted
    /\ Len(doc) = 2
    /\ doc[1] = [key |-> "user", val |-> 101]
    /\ doc[2] = [key |-> "mounts", val |-> <<BindMount>>]
    /\ parse_test_container(AsNamedContainer).tag = "Ok"
    /\ Container.user = Some(101)

\* The outcome of handling entries 1..k one after the other from a fresh
\* visitor: the visitor they leave, or the error of the first that fails.
RECURSIVE Outcome(_)
Outcome(k) ==
    IF k = 0 THEN Ok(DefaultDirectiveVisitor)
    ELSE LET before == Outcome(k - 1)
         IN  IF before.tag # "Ok" THEN before
             ELSE visit_entry(before.v, doc[k])

\* The entries among 1..k that give a filter.
FilterEntries(k) == {i \in 1..k : i \in DOMAIN doc /\ doc[i].key = "filter"}

(***************************************************************************)
(* C16. Fail-fast: the first field whose handling fails ends the           *)
(* declaration. The decoder returns the error of that field and no         *)
(* directive; every earlier field was accepted (so it is the earliest      *)
(* failing field in input order); no later field is read or applied (the   *)
(* visitor holds exactly the earlier fields, the filter parser has seen    *)
(* no later filter, and the outcome is that of the declaration cut after   *)
(* the failing field); an accepted declaration has no failing field.       *)
(***************************************************************************)
C16_FailFast ==
    /\ pc = "visit_map" => Outcome(pos - 1) = Ok(self)
    /\ (Rejected /\ ~duplicate_key(doc)) =>
          /\ pos \in DOMAIN doc
          /\ Outcome(pos - 1) = Ok(self)
          /\ result = visit_entry(self, doc[pos])
          /\ DOMAIN result = {"tag", "msg"}
          /\ result = parse_test_directive(SubSeq(doc, 1, pos))
          /\ Len(filter_calls) = Cardinality(FilterEntries(pos))
    /\ Accepted => \A k \in DOMAIN doc : Outcome(k).tag = "Ok"

\* A key that is not a field, followed by a filter the parser would refuse:
\* the decoder stopped at the first and never called the parser.
C16_Witness ==
    /\ Len(doc) = 3
    /\ doc[1].key = "network"
    /\ doc[2].key = "unknown"
    /\ doc[3] = [key |-> "filter", val |-> "bad"]
    /\ FailedAt(2)
    /\ result.msg = "unknown field 'unknown', expected one of"
    /\ filter_calls = <<>>
    /\ self.container_visitor.value.network = Some("loopback")

\* The keys the claim lists: the four directive-only names and the twelve
\* container field names.
AcceptedKeys ==
    {"filter", "include_shared_libraries", "timeout", "ignore", "network",
     "enable_writable_file_system", "user", "group", "mounts", "added_mounts",
     "image", "working_directory", "layers", "added_layers", "environment",
     "added_environment"}

UnknownFieldMessage(k) == "unknown field '" \o k \o "', expected one of"

(***************************************************************************)
(* C17. Unknown top-level field: the keys a directive accepts are exactly  *)
(* the four directive-only names and the twelve container field names; a   *)
(* declaration with any other key is rejected at that key with             *)
(* "unknown field 'X', expected one of ...", and no listed key is ever     *)
(* refused as unknown.                                                     *)
(***************************************************************************)
C17_UnknownFieldRejected ==
    /\ DOMAIN DirectiveField = AcceptedKeys
    /\ DirectiveOnlyKeys \cup ContainerKeys = AcceptedKeys
    /\ \A j \in DOMAIN doc :
          /\ doc[j].key \notin AcceptedKeys =>
                /\ pc = "visit_map" => pos <= j
                /\ Done => result.tag = "Err"
                /\ StoppedAt(j) => result.msg = UnknownFieldMessage(doc[j].key)
          /\ (doc[j].key \in AcceptedKeys /\ StoppedAt(j)) =>
                result.msg # UnknownFieldMessage(doc[j].key)

\* name = "foo", the key of a named container, in a directive: refused as
\* an unknown field.
C17_Witness ==
    /\ Len(doc) = 2
    /\ doc[1].key = "ignore"
    /\ doc[2] = [key |-> "name", val |-> "foo"]
    /\ StoppedAt(2)
    /\ result.msg = "unknown field 'name', expected one of"

(***************************************************************************)
(* C18 as stated. The filter parser is called exactly once for every       *)
(* declaration whose filter field is present and never when it is absent.  *)
(***************************************************************************)
C18_ParserCalledOncePerFilter ==
    Done => Len(filter_calls) = IF HasKey("filter") THEN 1 ELSE 0

\* The decoder has handled entry i: it passed it, or stopped at it.
Reached(i) ==
    \/ pc = "visit_map" /\ pos > i
    \/ Accepted
    \/ FailedAt(i)
    \/ Rejected /\ ~duplicate_key(doc) /\ pos > i

(***************************************************************************)
(* C18 amended. The filter parser is called at most once per declaration:  *)
(* exactly once, with the string of the filter field, when the decoder     *)
(* reaches that field (in particular in every accepted directive that has  *)
(* it), and never when the field is absent or an earlier field fails.      *)
(* When the parser succeeds its value is stored in filter; when it fails   *)
(* the declaration fails at the filter field with the parser's message.    *)
(***************************************************************************)
C18_ParserCalledOnceWhenReached ==
    /\ ~HasKey("filter") =>
          /\ filter_calls = <<>>
          /\ Accepted => result.v.filter = None
    /\ \A i \in DOMAIN doc :
          doc[i].key = "filter" =>
              /\ filter_calls = IF Reached(i) THEN <<doc[i].val>> ELSE <<>>
              /\ Accepted =>
                     /\ parse_filter(doc[i].val).tag = "Ok"
                     /\ result.v.filter = Some(parse_filter(doc[i].val).v)
              /\ (Reached(i) /\ Done /\ parse_filter(doc[i].val).tag = "Err") =>
                     /\ FailedAt(i)
                     /\ result.msg = parse_filter(doc[i].val).msg

\* network = "loopback" and then filter = "all": accepted after one call of
\* the parser.
C18_Witness ==
    /\ Accepted
    /\ Len(doc) = 2
    /\ doc[1].key = "network"
    /\ doc[2] = [key |-> "filter", val |-> "all"]
    /\ filter_calls = <<"all">>
    /\ result.v.filter = Some([filter |-> "all"])

\* The fields a mount of type t must have and the ones it may have, as the
\* claim lists them.
NeededFields(t) ==
    IF t = "bind" THEN {"mount_point", "local_path"} ELSE {"mount_point"}

PermittedFields(t) ==
    IF t = "bind" THEN {"mount_point", "local_path", "read_only"} ELSE {"mount_point"}

ExtraFields(m) == (DOMAIN m \ {"type"}) \ PermittedFields(m.type)

LackingFields(m) == NeededFields(m.type) \ DOMAIN m

\* A proc, tmp, sys or bind mount, whatever its fields.
PathMount(m) == "type" \in DOMAIN m /\ m.type \in {"proc", "tmp", "sys", "bind"}

\* What a proc, tmp, sys or bind mount with the right fields is stored as.
ExpectedMount(m) ==
    IF m.type = "bind"
    THEN [type |-> "bind", mount_point |-> m.mount_point, local_path |-> m.local_path,
          read_only |-> IF "read_only" \in DOMAIN m THEN m.read_only ELSE FALSE]
    ELSE [type |-> m.type, mount_point |-> m.mount_point]

\* Entry j is a mount list met first in the declaration.
MountListAt(j) ==
    /\ doc[j].key \in {"mounts", "added_mounts"}
    /\ doc[j].val # <<>>
    /\ \A i \in 1..(j - 1) : doc[i].key \notin {"mounts", "added_mounts"}

\* The stored list of the field entry j gives.
StoredList(j) ==
    IF doc[j].key = "added_mounts" THEN Container.added_mounts
    ELSE IF Container.mounts = None THEN <<>>
    ELSE Container.mounts.v

(***************************************************************************)
(* C19. Mount decoding accepts exactly the fields of the chosen variant:   *)
(* proc, tmp and sys need mount_point and take nothing else; bind needs    *)
(* mount_point and local_path, takes read_only and stores read_only =      *)
(* false when it is absent. A mount without a needed field fails with      *)
(* "missing field 'X'", one with any other key fails with                  *)
(* "unknown field 'X', expected ..."; a mount list is accepted only if     *)
(* every mount of it has exactly the fields of its variant.                *)
(***************************************************************************)
C19_MountFieldsOfVariant ==
    \A j \in DOMAIN doc :
        (MountListAt(j) /\ PathMount(doc[j].val[1])) =>
            LET m == doc[j].val[1]
            IN  /\ (ExtraFields(m) # {} \/ LackingFields(m) # {}) =>
                       /\ pc = "visit_map" => pos <= j
                       /\ Done => result.tag = "Err"
                /\ (StoppedAt(j) /\ ExtraFields(m) # {}) =>
                       \E x \in ExtraFields(m) :
                           result.msg = "unknown field '" \o x \o "', expected"
                /\ (StoppedAt(j) /\ ExtraFields(m) = {} /\ LackingFields(m) # {}) =>
                       \E x \in LackingFields(m) :
                           result.msg = "missing field '" \o x \o "'"
                /\ (Done /\ Len(doc) = 1 /\ ExtraFields(m) = {}
                    /\ LackingFields(m) = {} /\ Len(doc[j].val) = 1
                    /\ m.mount_point # "/") => Accepted
                /\ (Accepted /\ ~duplicate_key(doc)) =>
                       /\ ExtraFields(m) = {}
                       /\ LackingFields(m) = {}
                       /\ Len(StoredList(j)) = Len(doc[j].val)
                       /\ StoredList(j)[1] = ExpectedMount(m)

\* A bind mount without read_only: accepted with read_only = false.
C19_Witness ==
    /\ Accepted
    /\ Len(doc) = 1
    /\ doc[1] = [key |-> "mounts", val |-> <<BindMount>>]
    /\ Container.mounts.v[1].read_only = FALSE
    /\ Container.mounts.v[1].local_path = "/local"

\* The tags of mount m that lie outside their universe: its type, or the
\* names of its devices.
ForeignMountTags(m) ==
    IF "type" \notin DOMAIN m THEN {}
    ELSE IF m.type \notin {"proc", "tmp", "sys", "bind", "devices"} THEN {m.type}
    ELSE IF m.type = "devices" /\ "devices" \in DOMAIN m
    THEN {m.devices[n] : n \in DOMAIN m.devices}
             \ {"null", "zero", "full", "random", "urandom", "tty"}
    ELSE {}

\* The tags of entry j that lie outside their universe.
ForeignTags(j) ==
    CASE doc[j].key = "network" -> {doc[j].val} \ {"disabled", "loopback", "local"}
      [] doc[j].key = "image" ->
            IF doc[j].val.form = "table" /\ doc[j].val.use # None
            THEN doc[j].val.use.v \ {"layers", "environment", "working_directory"}
            ELSE {}
      [] doc[j].key \in {"mounts", "added_mounts"} ->
            UNION {ForeignMountTags(doc[j].val[n]) : n \in DOMAIN doc[j].val}
      [] doc[j].key \in {"layers", "added_layers"} ->
            UNION {DOMAIN doc[j].val[n] : n \in DOMAIN doc[j].val}
                \ {"tar", "glob", "paths", "stubs", "symlinks",
                   "shared-library-dependencies",
                   "strip_prefix", "prepend_prefix", "canonicalize"}
      [] OTHER -> {}

\* The tags of a stored mount list.
StoredMountTypes(ms) == {ms[n].type : n \in DOMAIN ms}

StoredDevices(ms) ==
    UNION {ms[n].devices : n \in {n \in DOMAIN ms : ms[n].type = "devices"}}

StoredLayerTypes(ls) == {ls[n].type : n \in DOMAIN ls}

Discriminators(l) ==
    DOMAIN l \cap {"tar", "glob", "paths", "stubs", "symlinks",
                   "shared-library-dependencies"}

Modifiers(l) == DOMAIN l \cap {"strip_prefix", "prepend_prefix", "canonicalize"}

\* The layer has no discriminator or several, or a modifier its
\* discriminator does not take.
LayerFault(l) ==
    \/ Cardinality(Discriminators(l)) # 1
    \/ /\ Modifiers(l) # {}
       /\ Discriminators(l) \cap {"tar", "stubs", "symlinks"} # {}

\* What a modifier of a glob, paths or shared-library-dependencies layer
\* is stored as.
ExpectedModifier(l, m) ==
    IF m \in DOMAIN l THEN (IF m = "canonicalize" THEN l[m] ELSE Some(l[m]))
    ELSE (IF m = "canonicalize" THEN FALSE ELSE None)

\* The layer takes modifiers.
TakesModifiers(l) ==
    Discriminators(l) \cap {"glob", "paths", "shared-library-dependencies"} # {}

\* Entry j is a layer list met first in the declaration.
LayerListAt(j) ==
    /\ doc[j].key \in {"layers", "added_layers"}
    /\ doc[j].val # <<>>
    /\ \A i \in 1..(j - 1) : doc[i].key \notin {"layers", "added_layers", "image"}

\* The stored list of the layer field entry j gives.
StoredLayerList(j) ==
    IF doc[j].key = "added_layers" THEN Container.added_layers
    ELSE IF Container.layers \in {None, Some(FromImage)} THEN <<>>
    ELSE Container.layers.v.v

(***************************************************************************)
(* C21. Layer decoding requires exactly one discriminator key (tar, glob,  *)
(* paths, stubs, symlinks, shared-library-dependencies) and takes the      *)
(* modifiers strip_prefix, prepend_prefix and canonicalize only with glob, *)
(* paths and shared-library-dependencies: a layer with no discriminator or *)
(* with two, or with a modifier on tar, stubs or symlinks, is rejected at  *)
(* its field; a layer of a modifier-taking variant is accepted with each   *)
(* given modifier stored and each absent one at its default.               *)
(***************************************************************************)
C21_LayerKeys ==
    \A j \in DOMAIN doc :
        LayerListAt(j) =>
            /\ (\E n \in DOMAIN doc[j].val : LayerFault(doc[j].val[n])) =>
                   /\ pc = "visit_map" => pos <= j
                   /\ Done => result.tag = "Err"
            /\ (Done /\ Len(doc) = 1 /\ Len(doc[j].val) = 1
                /\ ~LayerFault(doc[j].val[1]) /\ TakesModifiers(doc[j].val[1])
                /\ DOMAIN doc[j].val[1]
                       = Discriminators(doc[j].val[1]) \cup Modifiers(doc[j].val[1]))
                   => Accepted
            /\ (Accepted /\ ~duplicate_key(doc)) =>
                   /\ Len(StoredLayerList(j)) = Len(doc[j].val)
                   /\ \A n \in DOMAIN doc[j].val :
                          LET l == doc[j].val[n]
                          IN  /\ ~LayerFault(l)
                              /\ TakesModifiers(l) =>
                                     \A m \in {"strip_prefix", "prepend_prefix",
                                               "canonicalize"} :
                                         /\ m \in DOMAIN StoredLayerList(j)[n]
                                         /\ StoredLayerList(j)[n][m]
                                                = ExpectedModifier(l, m)

\* layers = [{ paths = ["foo.bin", "bar.bin"], prepend_prefix = "b" }] has
\* been accepted: prepend_prefix is stored, strip_prefix and canonicalize
\* have their defaults.
C21_Witness ==
    /\ Len(doc) = 1
    /\ doc[1].key = "layers"
    /\ doc[1].val = <<[paths |-> <<"foo.bin", "bar.bin">>, prepend_prefix |-> "b"]>>
    /\ Accepted
    /\ Container.layers.v.v[1].prepend_prefix = Some("b")
    /\ Container.layers.v.v[1].strip_prefix = None
    /\ Container.layers.v.v[1].canonicalize = FALSE

\* The stored mounts of the declaration read so far, replacing list first.
StoredMountsOf(cv) ==
    (IF cv.mounts = None THEN <<>> ELSE cv.mounts.v) \o cv.added_mounts

\* Entry j holds a devices mount whose list is empty.
HasEmptyDevices(j) ==
    /\ doc[j].key \in {"mounts", "added_mounts"}
    /\ \E n \in DOMAIN doc[j].val :
          /\ DOMAIN doc[j].val[n] = {"type", "devices"}
          /\ doc[j].val[n].type = "devices"
          /\ doc[j].val[n].devices = <<>>

(***************************************************************************)
(* C22. Every devices mount of an accepted declaration carries a non-empty *)
(* set of devices: a declaration holding                                   *)
(* { type = "devices", devices = [] } is not accepted, and a device named  *)
(* several times in a list is one member of the stored set.                *)
(***************************************************************************)
C22_DeviceSetNonEmpty ==
    /\ \A j \in DOMAIN doc : HasEmptyDevices(j) => ~Accepted
    /\ Accepted =>
          \A n \in DOMAIN StoredMountsOf(Container) :
              StoredMountsOf(Container)[n].type = "devices" =>
                  StoredMountsOf(Container)[n].devices # {}
    /\ (Accepted /\ Len(doc) = 1 /\ doc[1].key = "mounts"
        /\ doc[1].val = <<DevicesMount>>) =>
          Container.mounts.v[1].devices = {"null", "zero"}

(***************************************************************************)
(* Decoders side by side: each declaration of a file is handed to its own  *)
(* TestDirective::deserialize call, and the calls interleave               *)
(***************************************************************************)
\* The longest declaration explored when two decoders run side by side.
MaxBuilderFields == 2

Builders == {"a", "b"}

\* The entries of the declarations decoded side by side: a directive-only
\* field with a good and a bad value, and the container fields whose
\* acceptance depends on what the same builder has seen before.
BuilderEntries ==
    {[key |-> "filter", val |-> "all"],
     [key |-> "filter", val |-> "bad"],
     [key |-> "layers", val |-> <<[tar |-> "foo.tar"]>>],
     [key |-> "added_layers", val |-> <<[tar |-> "bar.tar"]>>],
     [key |-> "image", val |-> [form |-> "table", name |-> "rust", use |-> Some({"layers"})]]}

Declarations ==
    {d \in UNION {[1..n -> BuilderEntries] : n \in 0..MaxBuilderFields} :
        ~duplicate_key(d)}

InitBuilders ==
    /\ builders \in [Builders ->
                        {[doc |-> d, pc |-> "deserialize", pos |-> 1,
                          self |-> None, result |-> None] : d \in Declarations}]
    /\ doc = <<>>
    /\ pc = "done"
    /\ pos = 1
    /\ self = DefaultDirectiveVisitor
    /\ result = None
    /\ filter_calls = <<>>
    /\ cargo = NotStarted
    /\ python = NotStarted
    /\ collect = NotStarted

\* TestDirective::deserialize with a visitor all the calls share: builder b
\* starts from the visitor another builder is filling.
BuilderDeserialize_shared(b) ==
    /\ builders[b].pc = "deserialize"
    /\ LET others == {c \in Builders \ {b} : builders[c].pc = "visit_map"}
       IN  builders' =
               [builders EXCEPT
                   ![b].pc = "visit_map",
                   ![b].self = IF others = {} THEN DefaultDirectiveVisitor
                               ELSE builders[CHOOSE c \in others : TRUE].self]
    /\ UNCHANGED <<decoder_vars, cargo, python, collect>>

\* TestDirective::deserialize of builder b: the declaration is handed to a
\* DirectiveVisitor created for this call.
BuilderDeserialize(b) ==
    /\ builders[b].pc = "deserialize"
    /\ builders' = [builders EXCEPT ![b].pc = "visit_map",
                                    ![b].self = DefaultDirectiveVisitor]
    /\ UNCHANGED <<decoder_vars, cargo, python, collect>>

\* One iteration of the loop of visit_map of builder b.
BuilderFillEntry(b) ==
    /\ builders[b].pc = "visit_map"
    /\ builders[b].pos <= Len(builders[b].doc)
    /\ LET r == visit_entry(builders[b].self, builders[b].doc[builders[b].pos])
       IN  builders' =
               IF r.tag = "Ok"
               THEN [builders EXCEPT ![b].self = r.v, ![b].pos = @ + 1]
               ELSE [builders EXCEPT ![b].result = r, ![b].pc = "done"]
    /\ UNCHANGED <<decoder_vars, cargo, python, collect>>

\* The loop of visit_map of builder b ends: its directive is finalized.
BuilderVisitEnd(b) ==
    /\ builders[b].pc = "visit_map"
    /\ builders[b].pos > Len(builders[b].doc)
    /\ builders' = [builders EXCEPT ![b].result = visit_end(builders[b].self),
                                    ![b].pc = "done"]
    /\ UNCHANGED <<decoder_vars, cargo, python, collect>>

NextBuilders ==
    \E b \in Builders :
        \/ BuilderDeserialize(b)
        \/ BuilderFillEntry(b)
        \/ BuilderVisitEnd(b)

SpecBuilders == InitBuilders /\ [][NextBuilders]_vars

\* The visitor of a decoder that runs alone, after the first n entries of
\* declaration d have been accepted.
RECURSIVE VisitorAfter(_, _)
VisitorAfter(d, n) ==
    IF n = 0 THEN DefaultDirectiveVisitor
    ELSE visit_entry(VisitorAfter(d, n - 1), d[n]).v

(***************************************************************************)
(* C23. Decoders are independent: when the declarations are decoded by     *)
(* separate builders whose steps interleave in any order, every builder    *)
(* is at each moment in the state it would be in when decoding its         *)
(* declaration alone, and its outcome (finalized record or error) is the   *)
(* outcome of decoding its declaration alone.                              *)
(***************************************************************************)
C23_DecodersIndependent ==
    \A b \in Builders :
        /\ builders[b].pc = "visit_map" =>
               builders[b].self = VisitorAfter(builders[b].doc, builders[b].pos - 1)
        /\ builders[b].pc = "done" =>
               builders[b].result = parse_test_directive(builders[b].doc)
        /\ builders[b].pc # "done" => builders[b].result = None

\* Builder a has accepted added_layers and is about to refuse image, while
\* builder b, given image first, has finalized its directive.
C23_Witness ==
    /\ Len(builders["a"].doc) = 2
    /\ builders["a"].doc[1].key = "added_layers"
    /\ builders["a"].doc[2].key = "image"
    /\ builders["a"].pc = "visit_map"
    /\ builders["a"].pos = 2
    /\ Len(builders["b"].doc) = 2
    /\ builders["b"].doc[1].key = "image"
    /\ builders["b"].doc[2].key = "filter"
    /\ builders["b"].pc = "done"
    /\ builders["b"].result.tag = "Ok"
    /\ builders["b"].result.v.container.layers = Some(FromImage)

\* The step in which the decoder accepts the entry at pos.
EntryAccepted == pc = "visit_map" /\ pc' = "visit_map" /\ pos' = pos + 1

\* The step in which the decoder finalizes the directive.
Finalized == pc = "visit_map" /\ pc' = "done" /\ result'.tag = "Ok"

(***************************************************************************)
(* C24. Dispatch frame: accepting filter, include_shared_libraries,        *)
(* timeout or ignore changes only that field of the directive and leaves   *)
(* the container builder (container fields and provenance ledger) as it    *)
(* was; accepting any other field leaves the four directive-only fields    *)
(* as they were; the container of the finalized directive is the           *)
(* container the container builder holds, and its directive-only fields    *)
(* are the ones the decoder holds.                                         *)
(***************************************************************************)
C24_DispatchFrame ==
    [][/\ EntryAccepted =>
              IF doc[pos].key \in DirectiveOnlyKeys
              THEN /\ self'.container_visitor = self.container_visitor
                   /\ self'.value.container = self.value.container
                   /\ \A f \in DirectiveOnlyKeys \ {doc[pos].key} :
                          self'.value[f] = self.value[f]
              ELSE self'.value = self.value
       /\ Finalized =>
              /\ result'.v.container = self.container_visitor.value
              /\ \A f \in DirectiveOnlyKeys : result'.v[f] = self.value[f]]_vars

\* network = "loopback" then ignore = true have been accepted: the directive
\* holds ignore only, the container builder holds network only.
C24_Witness ==
    /\ Len(doc) = 2
    /\ doc[1].key = "network"
    /\ doc[2].key = "ignore"
    /\ pc = "visit_map"
    /\ pos = 3
    /\ self.value.ignore = Some(TRUE)
    /\ self.value.include_shared_libraries = None
    /\ self.container_visitor.value.network = Some("loopback")

\* The image at entry j meets its preconditions: no field of its 'use' set
\* has been set explicitly, and added_layers / added_environment is empty
\* when it uses layers / environment.
ImageAllowed(j) ==
    \A u \in DeclaredUse(doc[j].val) :
        /\ \A i \in 1..(j - 1) : doc[i].key # u
        /\ u \in {"layers", "environment"} =>
               \A i \in 1..(j - 1) : ~NonEmptyAdded(i, u)

\* The decoder is about to handle an image entry.
AtImage == pc = "visit_map" /\ pos <= Len(doc) /\ doc[pos].key = "image"

(***************************************************************************)
(* C25. The image field is accepted exactly when, for each u of its 'use'  *)
(* set, field u has not been set explicitly and (for u = layers /          *)
(* environment) added_layers / added_environment is empty; an accepted     *)
(* image whose 'use' set holds neither layers nor environment leaves       *)
(* layers, added_layers, environment and added_environment (and their      *)
(* ledger entries) as they were, and is accepted after non-empty           *)
(* added_layers and added_environment.                                     *)
(***************************************************************************)
C25_ImageAcceptedExactlyWhen ==
    [][AtImage =>
          /\ EntryAccepted <=> ImageAllowed(pos)
          /\ ~EntryAccepted => (pc' = "done" /\ result'.tag = "Err")
          /\ (EntryAccepted
              /\ DeclaredUse(doc[pos].val) \cap {"layers", "environment"} = {}) =>
                 /\ \A f \in {"layers", "added_layers", "environment",
                              "added_environment"} :
                        self'.container_visitor.value[f]
                            = self.container_visitor.value[f]
                 /\ \A f \in {"layers", "environment"} :
                        self'.container_visitor.ledger[f]
                            = self.container_visitor.ledger[f]]_vars

\* added_layers = [{ tar = "bar.tar" }], added_environment = { BAR = "bar" }
\* and then image = { name = "rust", use = ["working_directory"] } have been
\* accepted.
C25_Witness ==
    /\ Len(doc) = 3
    /\ NonEmptyAdded(1, "layers")
    /\ NonEmptyAdded(2, "environment")
    /\ doc[3].key = "image"
    /\ DeclaredUse(doc[3].val) = {"working_directory"}
    /\ pc = "visit_map"
    /\ pos = 4
    /\ self.container_visitor.value.image = Some("rust")
    /\ self.container_visitor.value.working_directory = Some(FromImage)
    /\ self.container_visitor.value.layers = None
    /\ self.container_visitor.value.added_layers # <<>>

\* The entries the decoder has accepted so far.
AcceptedEntries == 1..(pos - 1)

(***************************************************************************)
(* C26. Ledger consistency: at every moment of a decode, for f in          *)
(* working_directory, layers, environment, the ledger entry of f is        *)
(* image-sourced exactly when the partial container's f is FromImage,      *)
(* explicit exactly when it is Explicit(v), and unset exactly when it is   *)
(* None; the container's image is set exactly when an image field has      *)
(* been accepted.                                                          *)
(***************************************************************************)
C26_LedgerConsistent ==
    LET cv == self.container_visitor
    IN  /\ \A f \in {"working_directory", "layers", "environment"} :
               /\ cv.ledger[f] \in {"unset", "explicit", "image"}
               /\ cv.ledger[f] = "image" <=> cv.value[f] = Some(FromImage)
               /\ cv.ledger[f] = "explicit" <=>
                      (cv.value[f].tag = "Some" /\ cv.value[f].v.tag = "Explicit")
               /\ cv.ledger[f] = "unset" <=> cv.value[f] = None
        /\ cv.value.image # None <=> \E i \in AcceptedEntries : doc[i].key = "image"

\* Partway through a decode: working_directory is image-sourced, layers is
\* explicit and environment is unset.
C26_Witness ==
    /\ pc = "visit_map"
    /\ pos = 3
    /\ doc[1].key = "layers"
    /\ doc[2].key = "image"
    /\ self.container_visitor.ledger
           = [working_directory |-> "image", layers |-> "explicit",
              environment |-> "unset"]
    /\ self.container_visitor.value.working_directory = Some(FromImage)
    /\ self.container_visitor.value.layers.v.tag = "Explicit"
    /\ self.container_visitor.value.environment = None

(***************************************************************************)
(* C27. The unwrap of the delegation arm of fill_entry never panics:       *)
(* into_container_field returns None for exactly the four directive-only   *)
(* variants, each of which an earlier arm of fill_entry handles, and the   *)
(* ContainerField of the same name for each of the twelve others; no       *)
(* entry of any declaration makes the decoder panic.                       *)
(***************************************************************************)
C27_UnwrapNeverPanics ==
    /\ \A key \in DOMAIN DirectiveField :
          IF key \in {"filter", "include_shared_libraries", "timeout", "ignore"}
          THEN into_container_field(DirectiveField[key]) = None
          ELSE into_container_field(DirectiveField[key]) = Some(DirectiveField[key])
    /\ Cardinality(DOMAIN DirectiveField
                       \ {"filter", "include_shared_libraries", "timeout", "ignore"})
           = 12
    /\ (pc = "visit_map" /\ pos <= Len(doc)) =>
          visit_entry(self, doc[pos]).tag \in {"Ok", "Err"}
    /\ result.tag \in {"None", "Ok", "Err"}

\* timeout = 1 (handled by its own arm) and user = 101 (delegated) have
\* been accepted and the directive is finalized.
C27_Witness ==
    /\ Len(doc) = 2
    /\ doc[1].key = "timeout"
    /\ doc[1].val = 1
    /\ doc[2].key = "user"
    /\ Accepted
    /\ Container.user = Some(101)
    /\ result.v.timeout = Some(Timeout_new(1))

(***************************************************************************)
(* cargo-maelstrom (cargo.rs): a cargo build and its child process.        *)
(* CargoBuild::new spawns the child with stdout and stderr piped; the      *)
(* caller takes the artifact stream, reads it to its end and then calls    *)
(* check_status. A pipe holds PipeCapacity units; a write to a full pipe   *)
(* blocks the child, a read of an empty pipe whose write end is open       *)
(* blocks the reader.                                                      *)
(***************************************************************************)
\* The most messages a child writes to its stdout.
MaxMessages == 3

\* The most units of output a child writes to its stderr.
MaxStderr == 2

\* The units of output a pipe holds before a write to it blocks.
PipeCapacity == 1

\* What CargoMessage::parse_stream yields for the lines the child writes: a
\* test executable, a test build of a library without an executable, a
\* binary that is not a test, a message that is no artifact, and a line the
\* reader fails on.
TestArtifact ==
    Ok([reason |-> "compiler-artifact", executable |-> Some("test-exe"), test |-> TRUE])

LibArtifact ==
    Ok([reason |-> "compiler-artifact", executable |-> None, test |-> TRUE])

BinArtifact ==
    Ok([reason |-> "compiler-artifact", executable |-> Some("bin-exe"), test |-> FALSE])

BuildFinished == Ok([reason |-> "build-finished"])

ReadError == Err("stream did not contain valid UTF-8")

CargoMessages == {TestArtifact, LibArtifact, BinArtifact, BuildFinished, ReadError}

\* artifact.executable.is_some() with the test profile not looked at.
is_test_artifact_executable(artifact) == artifact.executable # None

\* artifact.executable.is_some() && artifact.profile.test
is_test_artifact(artifact) == artifact.executable # None /\ artifact.test

\* The match of TestArtifactStream::next on one item of the underlying
\* stream: Some(item to return), or None when the loop goes on.
match_message(m) ==
    IF m.tag = "Err" THEN Some(Err(m.msg))
    ELSE IF m.v.reason = "compiler-artifact" /\ is_test_artifact(m.v)
    THEN Some(Ok(m.v))
    ELSE None

\* A spawned build: the child will write the messages of program to its
\* stdout and units units to its stderr, and exit with the given status.
SpawnedBuild(program, units, success) ==
    [pc |-> "artifact_stream", build |-> TRUE, program |-> program,
     child_out |-> program, child_err |-> units, exit_success |-> success,
     alive |-> TRUE, stdout_open |-> TRUE,
     stdout_pipe |-> <<>>, stderr_pipe |-> 0,
     stream |-> None, read |-> <<>>, yielded |-> <<>>, ended |-> FALSE,
     stderr |-> 0, result |-> None]

\* TestArtifactStream::default(): a stream that belongs to no build.
DefaultTestArtifactStream ==
    [pc |-> "next", build |-> FALSE, program |-> <<>>,
     child_out |-> <<>>, child_err |-> 0, exit_success |-> TRUE,
     alive |-> FALSE, stdout_open |-> FALSE,
     stdout_pipe |-> <<>>, stderr_pipe |-> 0,
     stream |-> None, read |-> <<>>, yielded |-> <<>>, ended |-> FALSE,
     stderr |-> 0, result |-> None]

InitCargo ==
    /\ cargo \in {DefaultTestArtifactStream}
                 \cup {SpawnedBuild(p, n, s) :
                         p \in UNION {[1..k -> CargoMessages] : k \in 0..MaxMessages},
                         n \in 0..MaxStderr, s \in BOOLEAN}
    /\ doc = <<>>
    /\ pc = "done"
    /\ pos = 1
    /\ self = DefaultDirectiveVisitor
    /\ result = None
    /\ filter_calls = <<>>
    /\ builders = NotStarted
    /\ python = NotStarted
    /\ collect = NotStarted

\* The child writes its next message to stdout (it blocks while the pipe
\* is full).
ChildWriteStdout ==
    /\ cargo.alive /\ cargo.stdout_open
    /\ cargo.child_out # <<>>
    /\ Len(cargo.stdout_pipe) < PipeCapacity
    /\ cargo' = [cargo EXCEPT !.stdout_pipe = Append(@, Head(cargo.child_out)),
                              !.child_out = Tail(@)]
    /\ UNCHANGED <<decoder_vars, builders, python, collect>>

\* The child writes one more unit to stderr (it blocks while the pipe is
\* full).
ChildWriteStderr ==
    /\ cargo.alive
    /\ cargo.child_err > 0
    /\ cargo.stderr_pipe < PipeCapacity
    /\ cargo' = [cargo EXCEPT !.stderr_pipe = @ + 1, !.child_err = @ - 1]
    /\ UNCHANGED <<decoder_vars, builders, python, collect>>

\* The child closes its stdout once it has written its messages, with
\* output for stderr still to come.
ChildCloseStdout ==
    /\ cargo.alive /\ cargo.stdout_open
    /\ cargo.child_out = <<>>
    /\ cargo.child_err > 0
    /\ cargo' = [cargo EXCEPT !.stdout_open = FALSE]
    /\ UNCHANGED <<decoder_vars, builders, python, collect>>

\* The child exits once it has written all of its output: the write ends
\* of both pipes are closed.
ChildExit ==
    /\ cargo.alive
    /\ cargo.child_out = <<>>
    /\ cargo.child_err = 0
    /\ cargo' = [cargo EXCEPT !.alive = FALSE, !.stdout_open = FALSE]
    /\ UNCHANGED <<decoder_vars, builders, python, collect>>

\* CargoBuild::artifact_stream: the stream takes the child's stdout.
ArtifactStream ==
    /\ cargo.pc = "artifact_stream"
    /\ cargo' = [cargo EXCEPT !.stream = Some("stdout"), !.pc = "next"]
    /\ UNCHANGED <<decoder_vars, builders, python, collect>>

\* One turn of the loop of TestArtifactStream::next: without a stream the
\* call returns None; otherwise the next item is read from the pipe
\* (blocking while the pipe is empty and its write end open), the end of
\* the stream returns None, an error or a test artifact is returned, and
\* any other message is skipped.
StreamNext ==
    /\ cargo.pc = "next"
    /\ IF cargo.stream = None \/ (cargo.stdout_pipe = <<>> /\ ~cargo.stdout_open)
       THEN cargo' = [cargo EXCEPT !.ended = TRUE,
                                   !.pc = IF cargo.build THEN "check_status"
                                          ELSE "stream_end"]
       ELSE /\ cargo.stdout_pipe # <<>>
            /\ LET m == Head(cargo.stdout_pipe)
               IN  cargo' = [cargo EXCEPT
                                !.stdout_pipe = Tail(@),
                                !.read = Append(@, m),
                                !.yielded = IF match_message(m) = None THEN @
                                            ELSE Append(@, match_message(m))]
    /\ UNCHANGED <<decoder_vars, builders, python, collect>>

\* CargoBuild::check_status: child.wait() returns once the child has
\* exited; on failure what is left in the stderr pipe is copied to the
\* writer and the build failure is returned.
CheckStatus ==
    /\ cargo.pc = "check_status"
    /\ ~cargo.alive
    /\ cargo' = IF cargo.exit_success
                THEN [cargo EXCEPT !.pc = "returned", !.result = Ok("unit")]
                ELSE [cargo EXCEPT !.pc = "returned",
                                   !.stderr = @ + cargo.stderr_pipe,
                                   !.stderr_pipe = 0,
                                   !.result = Err("build failure")]
    /\ UNCHANGED <<decoder_vars, builders, python, collect>>

NextCargo ==
    \/ ChildWriteStdout
    \/ ChildWriteStderr
    \/ ChildCloseStdout
    \/ ChildExit
    \/ ArtifactStream
    \/ StreamNext
    \/ CheckStatus

SpecCargo == InitCargo /\ [][NextCargo]_vars

\* The scheduler runs a process that can take a step: the child while a
\* write of it can go through or it can exit, the caller while its read or
\* its wait can return.
SpecCargoFair == SpecCargo /\ WF_vars(NextCargo)

(***************************************************************************)
(* C28. CargoBuild::check_status eventually returns for every child that   *)
(* writes a finite amount of output and then exits, once the artifact      *)
(* stream has been read to its end: the call does not block forever on a   *)
(* child that is blocked writing to the stderr pipe.                       *)
(***************************************************************************)
C28_CheckStatusReturns == (cargo.pc = "check_status") ~> (cargo.pc = "returned")

\* The items of the underlying stream the artifact stream is to yield: the
\* errors, and the compiler artifacts with an executable and the test
\* profile.
Wanted(m) ==
    \/ m.tag = "Err"
    \/ /\ m.tag = "Ok"
       /\ m.v.reason = "compiler-artifact"
       /\ m.v.executable # None
       /\ m.v.test

WantedOf(items) ==
    [i \in DOMAIN SelectSeq(items, Wanted) |-> Some(SelectSeq(items, Wanted)[i])]

(***************************************************************************)
(* C30. The cargo TestArtifactStream yields, in order, exactly the         *)
(* compiler-artifact messages that have an executable and the test         *)
(* profile; every other message is skipped; an error of the stream is      *)
(* yielded as Some(Err) at its position and does not end the iteration;    *)
(* None is returned once the underlying stream is exhausted, and at once   *)
(* when the stream is absent (Default).                                    *)
(***************************************************************************)
C30_YieldsTestArtifacts ==
    /\ cargo.yielded = WantedOf(cargo.read)
    /\ Len(cargo.read) <= Len(cargo.program)
    /\ cargo.read = SubSeq(cargo.program, 1, Len(cargo.read))
    /\ cargo.ended =>
          \/ cargo.stream = None /\ cargo.read = <<>>
          \/ cargo.stream # None /\ cargo.read = cargo.program
    /\ (cargo.stream = None /\ cargo.pc \notin {"artifact_stream", "next"}) =>
          cargo.ended /\ cargo.yielded = <<>>

\* The stream of a child that wrote an unreadable line, a binary that is
\* no test and a test executable has been read to its end: the error and
\* the test executable were yielded, in this order.
C30_Witness ==
    /\ cargo.program = <<ReadError, BinArtifact, TestArtifact>>
    /\ cargo.ended
    /\ cargo.yielded = <<Some(ReadError), Some(TestArtifact)>>

(***************************************************************************)
(* maelstrom-pytest (pytest.rs): run_python spawns python with stdout and  *)
(* stderr piped, starts one thread per pipe that reads it to its end,      *)
(* joins both threads and then waits for the child.                        *)
(***************************************************************************)
\* The most units of output the python child writes to its stdout.
MaxStdout == 2

\* exit_status.code().unwrap_or_else(|| 128 + exit_status.signal().unwrap())
SignalExitBase == 128

\* exit_code as u8
ExitCodeBits == 8

\* How the child ends: exit code 0, 1 or 255, or killed by signal 9.
ExitStatuses ==
    {[code |-> Some(0)], [code |-> Some(1)], [code |-> Some(255)],
     [code |-> None, signal |-> Some(9)]}

\* Reader::read_to_string on a pipe that delivered n units: the string, or
\* the error of a stream that is not valid UTF-8 (found once the pipe has
\* been read to its end).
read_to_string(valid, n) ==
    IF valid THEN Ok(n) ELSE Err("stream did not contain valid UTF-8")

\* The error run_python returns for a child that did not succeed.
PytestCollectError(stderr, exit_code) ==
    [tag |-> "Err", error |-> "PytestCollectError",
     stderr |-> stderr, exit_code |-> exit_code]

\* The end of run_python with the signal number taken as the exit code.
python_result_signal(status, stdout, stderr) ==
    IF status.code = Some(0) THEN Ok(stdout)
    ELSE LET exit_code == IF status.code # None THEN status.code.v
                          ELSE status.signal.v
         IN  PytestCollectError(stderr, exit_code % (2 ^ ExitCodeBits))

\* The end of run_python: the child's stdout on success, otherwise the
\* child's stderr and its exit code.
python_result(status, stdout, stderr) ==
    IF status.code = Some(0) THEN Ok(stdout)
    ELSE LET exit_code == IF status.code # None THEN status.code.v
                          ELSE SignalExitBase + status.signal.v
         IN  PytestCollectError(stderr, exit_code % (2 ^ ExitCodeBits))

\* run_python after cmd.spawn(): the child will write out units to its
\* stdout and err units to its stderr, valid UTF-8 or not, and end with
\* status.
SpawnedPython(out, err, out_valid, err_valid, status) ==
    [pc |-> "spawn_stdout_thread",
     out |-> out, err |-> err, out_valid |-> out_valid, err_valid |-> err_valid,
     child_out |-> out, child_err |-> err, exit_status |-> status, alive |-> TRUE,
     stdout_pipe |-> 0, stderr_pipe |-> 0,
     stdout_thread |-> "none", stderr_thread |-> "none",
     stdout_string |-> 0, stderr_string |-> 0,
     stdout_read |-> None, stderr_read |-> None,
     result |-> None]

\* Output of no unit is valid UTF-8.
InitPython ==
    /\ python \in {SpawnedPython(out, err, out_valid, err_valid, status) :
                     out \in 0..MaxStdout, err \in 0..MaxStderr,
                     out_valid \in BOOLEAN, err_valid \in BOOLEAN,
                     status \in ExitStatuses}
    /\ python.out = 0 => python.out_valid
    /\ python.err = 0 => python.err_valid
    /\ doc = <<>>
    /\ pc = "done"
    /\ pos = 1
    /\ self = DefaultDirectiveVisitor
    /\ result = None
    /\ filter_calls = <<>>
    /\ builders = NotStarted
    /\ cargo = NotStarted
    /\ collect = NotStarted

\* The child writes one more unit to stdout (it blocks while the pipe is
\* full).
PythonWriteStdout ==
    /\ python.alive
    /\ python.child_out > 0
    /\ python.stdout_pipe < PipeCapacity
    /\ python' = [python EXCEPT !.stdout_pipe = @ + 1, !.child_out = @ - 1]
    /\ UNCHANGED <<decoder_vars, builders, cargo, collect>>

\* The child writes one more unit to stderr (it blocks while the pipe is
\* full).
PythonWriteStderr ==
    /\ python.alive
    /\ python.child_err > 0
    /\ python.stderr_pipe < PipeCapacity
    /\ python' = [python EXCEPT !.stderr_pipe = @ + 1, !.child_err = @ - 1]
    /\ UNCHANGED <<decoder_vars, builders, cargo, collect>>

\* The child exits once it has written all of its output: the write ends
\* of both pipes are closed.
PythonExit ==
    /\ python.alive
    /\ python.child_out = 0
    /\ python.child_err = 0
    /\ python' = [python EXCEPT !.alive = FALSE]
    /\ UNCHANGED <<decoder_vars, builders, cargo, collect>>

\* thread::spawn of the thread that reads stdout.
SpawnStdoutThread ==
    /\ python.pc = "spawn_stdout_thread"
    /\ python' = [python EXCEPT !.stdout_thread = "reading",
                                !.pc = "spawn_stderr_thread"]
    /\ UNCHANGED <<decoder_vars, builders, cargo, collect>>

\* thread::spawn of the thread that reads stderr.
SpawnStderrThread ==
    /\ python.pc = "spawn_stderr_thread"
    /\ python' = [python EXCEPT !.stderr_thread = "reading", !.pc = "join_stdout"]
    /\ UNCHANGED <<decoder_vars, builders, cargo, collect>>

\* One read of stdout.read_to_string: what the pipe holds is taken; at the
\* end of the pipe the thread finishes.
StdoutRead ==
    /\ python.stdout_thread = "reading"
    /\ python.stdout_pipe > 0 \/ ~python.alive
    /\ python' = IF python.stdout_pipe > 0
                 THEN [python EXCEPT !.stdout_string = @ + python.stdout_pipe,
                                     !.stdout_pipe = 0]
                 ELSE [python EXCEPT
                          !.stdout_thread = "finished",
                          !.stdout_read = read_to_string(python.out_valid,
                                                         python.stdout_string)]
    /\ UNCHANGED <<decoder_vars, builders, cargo, collect>>

\* The stderr thread reading only once the child has exited.
StderrRead_after_exit ==
    /\ python.stderr_thread = "reading"
    /\ ~python.alive
    /\ python' = IF python.stderr_pipe > 0
                 THEN [python EXCEPT !.stderr_string = @ + python.stderr_pipe,
                                     !.stderr_pipe = 0]
                 ELSE [python EXCEPT
                          !.stderr_thread = "finished",
                          !.stderr_read = read_to_string(python.err_valid,
                                                         python.stderr_string)]
    /\ UNCHANGED <<decoder_vars, builders, cargo, collect>>

\* One read of stderr.read_to_string: what the pipe holds is taken; at the
\* end of the pipe the thread finishes.
StderrRead ==
    /\ python.stderr_thread = "reading"
    /\ python.stderr_pipe > 0 \/ ~python.alive
    /\ python' = IF python.stderr_pipe > 0
                 THEN [python EXCEPT !.stderr_string = @ + python.stderr_pipe,
                                     !.stderr_pipe = 0]
                 ELSE [python EXCEPT
                          !.stderr_thread = "finished",
                          !.stderr_read = read_to_string(python.err_valid,
                                                         python.stderr_string)]
    /\ UNCHANGED <<decoder_vars, builders, cargo, collect>>

\* stdout_handle.join().unwrap()?: returns once the stdout thread has
\* finished; the error of its read is returned by run_python at once.
JoinStdout ==
    /\ python.pc = "join_stdout"
    /\ python.stdout_thread = "finished"
    /\ python' = IF python.stdout_read.tag = "Err"
                 THEN [python EXCEPT !.stdout_thread = "joined", !.pc = "returned",
                                     !.result = python.stdout_read]
                 ELSE [python EXCEPT !.stdout_thread = "joined",
                                     !.pc = "join_stderr"]
    /\ UNCHANGED <<decoder_vars, builders, cargo, collect>>

\* stderr_handle.join().unwrap()?: returns once the stderr thread has
\* finished; the error of its read is returned by run_python at once.
JoinStderr ==
    /\ python.pc = "join_stderr"
    /\ python.stderr_thread = "finished"
    /\ python' = IF python.stderr_read.tag = "Err"
                 THEN [python EXCEPT !.stderr_thread = "joined", !.pc = "returned",
                                     !.result = python.stderr_read]
                 ELSE [python EXCEPT !.stderr_thread = "joined", !.pc = "wait"]
    /\ UNCHANGED <<decoder_vars, builders, cargo, collect>>

\* child.wait() returns once the child has exited; run_python returns.
Wait ==
    /\ python.pc = "wait"
    /\ ~python.alive
    /\ python' = [python EXCEPT
                     !.pc = "returned",
                     !.result = python_result(python.exit_status,
                                              python.stdout_read.v,
                                              python.stderr_read.v)]
    /\ UNCHANGED <<decoder_vars, builders, cargo, collect>>

NextPython ==
    \/ PythonWriteStdout
    \/ PythonWriteStderr
    \/ PythonExit
    \/ SpawnStdoutThread
    \/ SpawnStderrThread
    \/ StdoutRead
    \/ StderrRead
    \/ JoinStdout
    \/ JoinStderr
    \/ Wait

SpecPython == InitPython /\ [][NextPython]_vars

\* The scheduler runs a process or thread that can take a step.
SpecPythonFair == SpecPython /\ WF_vars(NextPython)

ResultOfStatus(st, out, err) ==
    IF st.code = Some(0) THEN Ok(out)
    ELSE [tag |-> "Err", error |-> "PytestCollectError", stderr |-> err,
          exit_code |-> (IF st.code # None THEN st.code.v
                         ELSE 128 + st.signal.v) % 256]

(***************************************************************************)
(* C31 as stated. run_python returns Ok(stdout) exactly when the child     *)
(* exits successfully; otherwise it returns a PytestCollectError carrying  *)
(* the whole of the child's stderr and an exit code equal to the child's   *)
(* exit code, or to 128 plus the signal number when the child was killed   *)
(* by a signal, reduced to 8 bits.                                         *)
(***************************************************************************)
C31_ResultFollowsExitStatus ==
    python.pc = "returned" =>
        /\ python.result = ResultOfStatus(python.exit_status, python.out, python.err)
        /\ python.result.tag = "Ok" <=> python.exit_status.code = Some(0)

(***************************************************************************)
(* C31. When the output of both pipes is valid UTF-8, run_python returns   *)
(* Ok(stdout) exactly when the child exits successfully, and otherwise a   *)
(* PytestCollectError carrying the whole of the child's stderr and an exit *)
(* code equal to the child's exit code, or to 128 plus the signal number   *)
(* when the child was killed by a signal, reduced to 8 bits; when the      *)
(* stdout or the stderr of the child is not valid UTF-8, run_python        *)
(* returns the error of the read, whatever the exit status.                *)
(***************************************************************************)
C31_ResultFollowsReadsAndExitStatus ==
    python.pc = "returned" =>
        IF python.out_valid /\ python.err_valid
        THEN /\ python.result
                    = ResultOfStatus(python.exit_status, python.out, python.err)
             /\ python.result.tag = "Ok" <=> python.exit_status.code = Some(0)
        ELSE python.result = Err("stream did not contain valid UTF-8")

\* run_python has returned for a child that wrote to both pipes and was
\* killed by signal 9: the error carries all of stderr and exit code 137.
C31_Witness ==
    /\ python.pc = "returned"
    /\ python.exit_status = [code |-> None, signal |-> Some(9)]
    /\ python.out = MaxStdout
    /\ python.err = MaxStderr
    /\ python.result = [tag |-> "Err", error |-> "PytestCollectError",
                        stderr |-> MaxStderr, exit_code |-> 137]

\* ---------------------------------------------------------------------
\* maelstrom-pytest: collecting the test cases, pytest_collect_tests.
\*
\* The output of the collector is a sequence of tokens: a newline, the JSON
\* text of one case, or text that is not JSON.  A path is the sequence of
\* its components.
\* ---------------------------------------------------------------------

MaxOutput == 5

Newline == [kind |-> "newline"]

NotJson == [kind |-> "text"]

PytestCase(file, node_id) == [kind |-> "case", file |-> file, node_id |-> node_id]

ProjectDir == <<"proj">>

OutputTokens ==
    {Newline, NotJson,
     PytestCase(<<"proj", "a.py">>, "a.py::t1"),
     PytestCase(<<"proj", "a.py">>, "a.py::t2"),
     PytestCase(<<"proj", "tests", "b.py">>, "tests/b.py::t1"),
     PytestCase(<<"other", "c.py">>, "c.py::t1")}

RECURSIVE Outputs(_)
Outputs(n) ==
    IF n = 0 THEN {<<>>}
    ELSE LET shorter == Outputs(n - 1)
         IN  shorter \cup {Append(o, t) : o \in {s \in shorter : Len(s) = n - 1},
                                          t \in OutputTokens}

\* output.split('\n'): the pieces between the newlines, empty ones included.
RECURSIVE split(_)
split(output) ==
    IF \A i \in DOMAIN output : output[i] # Newline THEN <<output>>
    ELSE LET i == CHOOSE i \in DOMAIN output :
                      /\ output[i] = Newline
                      /\ \A j \in 1..(i - 1) : output[j] # Newline
         IN  <<SubSeq(output, 1, i - 1)>> \o split(SubSeq(output, i + 1, Len(output)))

\* .filter(|l| !l.is_empty())
non_empty_lines(output) == SelectSeq(split(output), LAMBDA l : l # <<>>)

\* serde_json::from_str::<PytestCase>(line)
from_str(line) ==
    IF Len(line) = 1 /\ line[1].kind = "case" THEN Ok(line[1])
    ELSE IF line[1].kind = "case" THEN Err("trailing characters")
    ELSE Err("expected value")

\* Path::strip_prefix
strip_prefix(path, base) ==
    IF Len(base) <= Len(path) /\ SubSeq(path, 1, Len(base)) = base
    THEN Some(SubSeq(path, Len(base) + 1, Len(path)))
    ELSE None

\* Path::to_str of a relative path
RECURSIVE to_str(_)
to_str(path) ==
    IF Len(path) = 0 THEN ""
    ELSE IF Len(path) = 1 THEN path[1]
    ELSE path[1] \o "/" \o to_str(Tail(path))

PytestTestArtifact(path) ==
    [name |-> to_str(path), path |-> path, tests |-> <<>>, ignored_tests |-> <<>>,
     package |-> "default"]

\* A variant of the loop body in which a case replaces the cases that its
\* file already has.
push_case_replacing(tests, path, node_id) ==
    LET key == to_str(path)
    IN  [k \in DOMAIN tests \cup {key} |->
            IF k = key THEN [PytestTestArtifact(path) EXCEPT !.tests = <<node_id>>]
            ELSE tests[k]]

\* tests.entry(path_str).or_insert(artifact), then test.tests.push(node_id)
push_case(tests, path, node_id) ==
    LET key   == to_str(path)
        entry == IF key \in DOMAIN tests THEN tests[key] ELSE PytestTestArtifact(path)
    IN  [k \in DOMAIN tests \cup {key} |->
            IF k = key THEN [entry EXCEPT !.tests = Append(@, node_id)]
            ELSE tests[k]]

\* The for loop over the lines, from line i on: the map of the artifacts, the
\* error of the first line that does not parse, or the panic of the unwrap
\* on a file that is not under the project directory.
RECURSIVE collect_lines(_, _, _)
collect_lines(lines, i, tests) ==
    IF i > Len(lines) THEN Ok(tests)
    ELSE LET case == from_str(lines[i])
         IN  IF case.tag = "Err" THEN case
             ELSE LET path == strip_prefix(case.v.file, ProjectDir)
                  IN  IF path = None THEN [tag |-> "Panic"]
                      ELSE collect_lines(lines, i + 1,
                                         push_case(tests, path.v, case.v.node_id))

EmptyMap == [k \in {} |-> {}]

pytest_collect_tests(run) ==
    IF run.tag = "Err" THEN run
    ELSE collect_lines(non_empty_lines(run.v), 1, EmptyMap)

\* What run_python returned to pytest_collect_tests.
RunPythonResults ==
    {Ok(o) : o \in Outputs(MaxOutput)} \cup {PytestCollectError(MaxStderr, 1)}

InitCollect ==
    /\ collect \in {[pc |-> "call", run |-> r, result |-> None, stream |-> EmptyMap,
                     yielded |-> <<>>] : r \in RunPythonResults}
    /\ doc = <<>>
    /\ pc = "done"
    /\ pos = 1
    /\ self = DefaultDirectiveVisitor
    /\ result = None
    /\ filter_calls = <<>>
    /\ builders = NotStarted
    /\ cargo = NotStarted
    /\ python = NotStarted

\* pytest_collect_tests, from the call to its return.
PytestCollectTests ==
    /\ collect # NotStarted
    /\ collect.pc = "call"
    /\ LET r == pytest_collect_tests(collect.run)
       IN  collect' = IF r.tag = "Ok"
                      THEN [collect EXCEPT !.pc = "stream", !.result = Some([tag |-> "Ok"]),
                                           !.stream = r.v]
                      ELSE [collect EXCEPT !.pc = "failed", !.result = Some(r)]
    /\ UNCHANGED <<decoder_vars, builders, cargo, python>>

\* TestArtifactStream::next: the next value of the map, in the order of the
\* map, which is any order; None when no value is left.
ArtifactsNext ==
    /\ collect # NotStarted
    /\ collect.pc = "stream"
    /\ IF DOMAIN collect.stream = {}
       THEN collect' = [collect EXCEPT !.pc = "exhausted"]
       ELSE \E key \in DOMAIN collect.stream :
                collect' = [collect EXCEPT
                               !.yielded = Append(@, Ok(collect.stream[key])),
                               !.stream = [k \in DOMAIN collect.stream \ {key} |->
                                              collect.stream[k]]]
    /\ UNCHANGED <<decoder_vars, builders, cargo, python>>

NextCollect == PytestCollectTests \/ ArtifactsNext

SpecCollect == InitCollect /\ [][NextCollect]_vars

\* ---------------------------------------------------------------------
\* C32
\* ---------------------------------------------------------------------

\* The tokens the collector wrote, when run_python returned them.
CollectorOutput == IF collect.run.tag = "Ok" THEN collect.run.v ELSE <<>>

CaseTokens == {CollectorOutput[i] : i \in {j \in DOMAIN CollectorOutput :
                                              CollectorOutput[j].kind = "case"}}

\* Every case of the output is of a file under the project directory.
CasesInProject == \A c \in CaseTokens : c.file[1] = "proj"

\* Some line of the output is not the JSON text of one case: it holds text
\* that is not JSON, or more than one token.
SomeLineNotJson ==
    \E i \in DOMAIN CollectorOutput :
        \/ CollectorOutput[i].kind = "text"
        \/ /\ i < Len(CollectorOutput)
           /\ CollectorOutput[i] # Newline
           /\ CollectorOutput[i + 1] # Newline

\* The path of a file relative to the project directory.
RelativePath(file) == Tail(file)

CollectedPaths == {RelativePath(c.file) : c \in CaseTokens}

\* The node ids of the cases of one file, in the order of the output.
NodeIdsOf(path) ==
    LET cases == SelectSeq(CollectorOutput,
                           LAMBDA t : t.kind = "case" /\ RelativePath(t.file) = path)
    IN  [n \in DOMAIN cases |-> cases[n].node_id]

\* C32: when every case of the collector's output is of a file under the
\* project directory, a line that is not valid JSON makes
\* pytest_collect_tests fail with no stream returned; otherwise the call
\* succeeds, every artifact the stream yields is the artifact of one file
\* path of the output and carries exactly the node ids of the cases of that
\* file, in the order the cases were output, no path is yielded twice, and
\* the exhausted stream has yielded one artifact per distinct file path:
\* empty lines contribute nothing.
C32_GroupsCasesByFile ==
    (collect # NotStarted /\ collect.run.tag = "Ok" /\ CasesInProject /\ collect.pc # "call")
        => IF SomeLineNotJson
           THEN /\ collect.pc = "failed"
                /\ collect.result.v.tag = "Err"
                /\ collect.yielded = <<>>
                /\ DOMAIN collect.stream = {}
           ELSE /\ collect.pc \in {"stream", "exhausted"}
                /\ collect.result = Some([tag |-> "Ok"])
                /\ \A i \in DOMAIN collect.yielded :
                       /\ collect.yielded[i].tag = "Ok"
                       /\ collect.yielded[i].v.path \in CollectedPaths
                       /\ collect.yielded[i].v.tests = NodeIdsOf(collect.yielded[i].v.path)
                       /\ \A j \in DOMAIN collect.yielded :
                              collect.yielded[j].v.path = collect.yielded[i].v.path => j = i
                /\ collect.pc = "exhausted"
                       => Len(collect.yielded) = Cardinality(CollectedPaths)

\* The stream is exhausted after an output of three cases of two files, the
\* cases of one file apart from each other, and the artifact of the file
\* that came second in the output was yielded first.
C32_Witness ==
    /\ collect # NotStarted
    /\ collect.pc = "exhausted"
    /\ collect.run = Ok(<<PytestCase(<<"proj", "a.py">>, "a.py::t1"), Newline,
                          PytestCase(<<"proj", "tests", "b.py">>, "tests/b.py::t1"), Newline,
                          PytestCase(<<"proj", "a.py">>, "a.py::t2")>>)
    /\ Len(collect.yielded) = 2
    /\ collect.yielded[1].v.name = "tests/b.py"
    /\ collect.yielded[2].v.name = "a.py"
    /\ collect.yielded[2].v.tests = <<"a.py::t1", "a.py::t2">>

====
